---- MODULE Spec2Model ----
(***************************************************************************)
(* Conflict detection and alternative-time suggestion of the calendar      *)
(* agent (src/conflict_resolver.py) over the SQLite event store            *)
(* (src/database.py), and the extraction of dates and times from Chinese   *)
(* text (src/calendar_agent.py, src/nlp_parser.py).                        *)
(*                                                                         *)
(* Time is a naive local datetime, counted in minutes since 00:00 of day 0.*)
(* The store keeps start_time and end_time as ISO-8601 text; the text is   *)
(* modelled as the tuple <<day, hour, minute>> of its fields, compared     *)
(* field by field from the left as SQLite compares TEXT.                   *)
(*                                                                         *)
(* Five specifications: Spec (the store and the resolver), SpecExtract     *)
(* (the two extractors, as functions of the text and of now), SpecAgent    *)
(* (the agent handling add requests), SpecDialogue (the agent handling the *)
(* messages of two clients about events, one process_input after the       *)
(* other) and SpecWorkout (the dialogue that collects a training plan).    *)
(***************************************************************************)
EXTENDS Integers, Sequences, FiniteSets, TLC

VARIABLES
    events,     \* rows of the events table: [id, start_time, end_time], times as ISO text
    op,         \* the operation that ran last
    call,       \* its arguments (and what it read from the environment)
    ret,        \* the value it returned
    outcome,    \* "returned", or "raised" when an exception reached the caller
    conversation_context,   \* CalendarAgent.conversation_context: the pending entries
    last_interaction_time,  \* CalendarAgent.last_interaction_time, in seconds
    workout_plans           \* rows of the workout_plans table: the ids of the plans

vars == <<events, op, call, ret, outcome, conversation_context, last_interaction_time,
          workout_plans>>

----------------------------------------------------------------------------
(* datetime and timedelta *)

MinutesPerHour == 60
HoursPerDay == 24
MinutesPerDay == HoursPerDay * MinutesPerHour

\* datetime(day, hour, minute)
At(d, h, m) == d * MinutesPerDay + h * MinutesPerHour + m

\* datetime.hour
Hour(t) == (t \div MinutesPerHour) % HoursPerDay

\* the calendar day of a datetime (its year, month and day)
DayOf(t) == t \div MinutesPerDay

\* datetime.isoformat(): "YYYY-MM-DDTHH:MM:SS", as its fields
IsoFormat(t) == <<DayOf(t), Hour(t), t % MinutesPerHour>>

\* comparison of two TEXT values: the first differing position decides
TextLeq(s, u) ==
    \/ s[1] < u[1]
    \/ s[1] = u[1] /\ s[2] < u[2]
    \/ s[1] = u[1] /\ s[2] = u[2] /\ s[3] <= u[3]

\* SQLiteCalendar._parse_datetime on a stored ISO text (database.py imports the
\* datetime module, so the text is parsed by dateutil.parser.parse)
ParseDatetime(s) == s[1] * MinutesPerDay + s[2] * MinutesPerHour + s[3]

\* CalendarEvent(id, title, start_time, end_time); the other fields play no part
CalendarEvent(id, start_time, end_time) ==
    [id |-> id, start_time |-> start_time, end_time |-> end_time]

----------------------------------------------------------------------------
(* bounds of the model *)

\* the most rows the events table holds
MaxEvents == 2

\* uuid4 ids
IdPool == <<"e1", "e2", "e3", "e4">>

\* the day the requests are about; offsets of up to three days stay >= day 1
BaseDay == 4

\* the windows of the events that get stored: <<start, minutes>>
StoredWindows ==
    { <<At(BaseDay, 6, 0), 360>>,       \* 06:00-12:00, a long meeting
      <<At(BaseDay, 11, 0), 60>>,       \* 11:00-12:00
      <<At(BaseDay, 10, 30), 60>>,      \* 10:30-11:30
      <<At(BaseDay - 1, 10, 0), 60>>,   \* the day before, 10:00-11:00
      <<At(BaseDay + 1, 9, 0), 60>>,    \* the day after, 09:00-10:00
      <<At(BaseDay, 22, 30), 120>> }    \* 22:30-00:30, over midnight

\* start times and durations of the candidate events
CandidateStarts == { At(BaseDay, 10, 0), At(BaseDay, 22, 0), At(BaseDay, 6, 30) }
CandidateDurations == { 60, 180 }

\* candidates whose window is empty or ends before it starts: <<start, minutes>>
InvalidWindows == { <<At(BaseDay, 10, 0), 0>>, <<At(BaseDay, 10, 0), -60>> }

\* the base_time arguments: left out, or given
BaseTimes == { <<>>, <<At(BaseDay - 1, 14, 0)>> }

\* the date arguments of get_available_slots
SlotDates == { At(BaseDay, 0, 0), At(BaseDay - 1, 15, 30) }

\* the ranges the events are listed for
ListRanges == { <<At(BaseDay, 0, 0), At(BaseDay, 23, 59)>>,
                <<At(BaseDay - 1, 0, 0), At(BaseDay + 1, 0, 0)>> }

\* values of datetime.now() when suggestions are filtered
NowTimes == { At(0, 0, 0), At(BaseDay, 10, 30), At(BaseDay, 23, 0), At(BaseDay + 4, 0, 0) }

----------------------------------------------------------------------------
(* SQLiteCalendar: the events table *)

StoredIds == { r.id : r \in events }

\* the row INSERTed by add_event
Row(event) ==
    [id |-> event.id,
     start_time |-> IsoFormat(event.start_time),
     end_time |-> IsoFormat(event.end_time)]

\* the CalendarEvent list_events builds from a row
FromRow(r) == CalendarEvent(r.id, ParseDatetime(r.start_time), ParseDatetime(r.end_time))

\* SELECT * FROM events WHERE start_time >= ? AND start_time <= ?
\* (the rows come ordered by start_time; the callers below only filter them)
list_events(rows, start_date, end_date) ==
    { FromRow(r) : r \in { x \in rows :
          /\ TextLeq(IsoFormat(start_date), x.start_time)
          /\ TextLeq(x.start_time, IsoFormat(end_date)) } }

----------------------------------------------------------------------------
(* ConflictResolver *)

\* timedelta(hours=2): the margin around the new event in which events are queried
SearchPad == 120

\* the id of the probe event _is_available builds
TempCheckId == "temp_check"

\* the first and the last hour of the day in which a slot may lie
DayStartHour == 6
DayEndHour == 23

\* suggestions[:8]
MaxSuggestions == 8

\* a mutation of _events_overlap: closed intervals
EventsOverlapClosed(e1, e2) ==
    e1.start_time <= e2.end_time /\ e2.start_time <= e1.end_time

\* _events_overlap(e1, e2)
EventsOverlap(e1, e2) ==
    e1.start_time < e2.end_time /\ e2.start_time < e1.end_time

\* find_conflicting_events(new_event) on the rows of the store; up is FALSE when
\* list_events raises, which the except clause turns into an empty list
FindConflictingEvents(rows, up, new_event) ==
    LET start_search == new_event.start_time - SearchPad
        end_search == new_event.end_time + SearchPad
    IN  IF ~up
        THEN {}
        ELSE { event \in list_events(rows, start_search, end_search) :
                 event.id # new_event.id /\ EventsOverlap(event, new_event) }

\* the list_events calls one find_conflicting_events(new_event) issues: the
\* query is the first statement of its try block, whatever the window is
FindQueries(new_event) == 1

\* _is_available(start_time, duration)
IsAvailable(rows, up, start_time, duration) ==
    LET end_time == start_time + duration
    IN  IF Hour(start_time) < DayStartHour \/ Hour(end_time) > DayEndHour
        THEN FALSE
        ELSE FindConflictingEvents(rows, up,
                 CalendarEvent(TempCheckId, start_time, end_time)) = {}

\* a mutation of the offsets: the first delta is 0, the base time itself
CandidateOffsetsWithZero ==
    << 0, 30, -60, 60,
       -MinutesPerDay, MinutesPerDay,
       -MinutesPerDay - MinutesPerHour, -MinutesPerDay + MinutesPerHour,
       MinutesPerDay - MinutesPerHour, MinutesPerDay + MinutesPerHour,
       -2 * MinutesPerDay, 2 * MinutesPerDay, -3 * MinutesPerDay, 3 * MinutesPerDay >>

\* the offsets from base_time, in the order the four loops generate them
CandidateOffsets ==
    << -30, 30, -60, 60,
       -MinutesPerDay, MinutesPerDay,
       -MinutesPerDay - MinutesPerHour, -MinutesPerDay + MinutesPerHour,
       MinutesPerDay - MinutesPerHour, MinutesPerDay + MinutesPerHour,
       -2 * MinutesPerDay, 2 * MinutesPerDay, -3 * MinutesPerDay, 3 * MinutesPerDay >>

\* the list_events calls one suggest_alternative_times issues: one for every
\* candidate time that passes the hour test of _is_available
SuggestQueries(base, event_duration) ==
    Cardinality({ i \in 1..Len(CandidateOffsets) :
        LET start_time == base + CandidateOffsets[i]
        IN  ~(Hour(start_time) < DayStartHour
                \/ Hour(start_time + event_duration) > DayEndHour) })

\* the available candidates, in generation order (suggestions before the sort)
GeneratedSuggestions(rows, up, base_time, event_duration) ==
    LET cands == [i \in 1..Len(CandidateOffsets) |-> base_time + CandidateOffsets[i]]
    IN  SelectSeq(cands, LAMBDA cand : IsAvailable(rows, up, cand, event_duration))

\* abs((t - base_time).total_seconds()), in minutes
Distance(t, base_time) == IF t >= base_time THEN t - base_time ELSE base_time - t

\* x put into a list sorted by distance, behind every element that is not farther
RECURSIVE InsertSorted(_, _, _)
InsertSorted(sorted, x, base_time) ==
    IF sorted = <<>> THEN <<x>>
    ELSE IF Distance(Head(sorted), base_time) <= Distance(x, base_time)
         THEN <<Head(sorted)>> \o InsertSorted(Tail(sorted), x, base_time)
         ELSE <<x>> \o sorted

\* x put in front of the elements that are as far: equal keys change places
RECURSIVE InsertSortedFront(_, _, _)
InsertSortedFront(sorted, x, base_time) ==
    IF sorted = <<>> THEN <<x>>
    ELSE IF Distance(Head(sorted), base_time) < Distance(x, base_time)
         THEN <<Head(sorted)>> \o InsertSortedFront(Tail(sorted), x, base_time)
         ELSE <<x>> \o sorted

RECURSIVE SortUnstable(_, _)
SortUnstable(seq, base_time) ==
    IF seq = <<>> THEN <<>>
    ELSE InsertSortedFront(SortUnstable(SubSeq(seq, 1, Len(seq) - 1), base_time),
                           seq[Len(seq)], base_time)

\* a mutation of the sort: one that is not stable
SortByDistanceUnstable(seq, base_time) == SortUnstable(seq, base_time)

\* list.sort(key=distance from base_time): ascending and stable
RECURSIVE SortByDistance(_, _)
SortByDistance(seq, base_time) ==
    IF seq = <<>> THEN <<>>
    ELSE InsertSorted(SortByDistance(SubSeq(seq, 1, Len(seq) - 1), base_time),
                      seq[Len(seq)], base_time)

\* a mutation of the filter: the current instant is kept
FilterPastInclusive(seq, now) == SelectSeq(seq, LAMBDA t : t >= now)

\* [t for t in suggestions if t > now]
FilterPast(seq, now) == SelectSeq(seq, LAMBDA t : t > now)

\* suggestions[:8]
Truncate(seq) ==
    SubSeq(seq, 1, IF Len(seq) < MaxSuggestions THEN Len(seq) ELSE MaxSuggestions)

\* an optional argument: None is <<>>, a value v is <<v>>
None == <<>>

\* if base_time is None: base_time = new_event.start_time
BaseTime(new_event, base_time) ==
    IF base_time = None THEN new_event.start_time ELSE base_time[1]

\* a mutation of suggest_alternative_times: the list is cut before the past is dropped
SuggestTruncateFirst(rows, up, new_event, base_time, now) ==
    LET base == BaseTime(new_event, base_time)
        event_duration == new_event.end_time - new_event.start_time
        suggestions == GeneratedSuggestions(rows, up, base, event_duration)
    IN  FilterPast(Truncate(SortByDistance(suggestions, base)), now)

\* suggest_alternative_times(new_event, base_time), datetime.now() read as now
SuggestAlternativeTimes(rows, up, new_event, base_time, now) ==
    LET base == BaseTime(new_event, base_time)
        event_duration == new_event.end_time - new_event.start_time
        suggestions == GeneratedSuggestions(rows, up, base, event_duration)
    IN  Truncate(FilterPast(SortByDistance(suggestions, base), now))

\* get_available_slots(date, duration)
GetAvailableSlots(rows, up, date, duration) ==
    LET start_of_day == At(DayOf(date), 6, 0)
        hours == [i \in 1..(22 - 6) |-> 6 + (i - 1)]       \* range(6, 22)
        check_times == [i \in 1..Len(hours) |-> start_of_day + hours[i] * MinutesPerHour]
    IN  SelectSeq(check_times, LAMBDA check_time : IsAvailable(rows, up, check_time, duration))

----------------------------------------------------------------------------
(* the state machine: the store's operations and the resolver's, called one
   at a time; each call leaves its arguments and its result in op, call, ret *)

NoCall == [none |-> TRUE]

\* self.conversation_context = {}: a key that is absent holds <<>>, a value v is <<v>>
EmptyContext ==
    [pending_event |-> <<>>, pending_action |-> <<>>, pending_intent |-> <<>>,
     available_events |-> <<>>, modify_new_time |-> <<>>,
     pending_modify_action |-> <<>>, selected_event_index |-> <<>>,
     event_to_modify |-> <<>>, new_start_time |-> <<>>, new_end_time |-> <<>>,
     event_to_delete |-> <<>>, pending_delete_action |-> <<>>,
     events_to_delete |-> <<>>, delete_range |-> <<>>,
     workout_plan_stage |-> <<>>, user_profile |-> <<>>,
     workout_plan_data |-> <<>>, pending_workout_plan |-> <<>>]

Init ==
    /\ events = {}
    /\ conversation_context = EmptyContext
    /\ last_interaction_time = <<>>
    /\ workout_plans = {}
    /\ op = "idle"
    /\ call = NoCall
    /\ ret = NoCall
    /\ outcome = "returned"

\* uuid4(): an id no row has
FreshId == IdPool[CHOOSE i \in 1..Len(IdPool) :
                    /\ IdPool[i] \notin StoredIds
                    /\ \A j \in 1..(i - 1) : IdPool[j] \in StoredIds]

\* the events a caller may pass to the resolver: a new one, or a stored one moved
CandidateEvents ==
    { CalendarEvent(id, st, st + d) :
        id \in {"new"} \cup StoredIds, st \in CandidateStarts, d \in CandidateDurations }

\* new events that a caller builds with start_time >= end_time
InvalidCandidateEvents == { CalendarEvent("new", w[1], w[1] + w[2]) : w \in InvalidWindows }

\* SQLiteCalendar.add_event(event): True, or False when sqlite3 raises
AddEvent ==
    /\ op = "idle"
    /\ Cardinality(events) < MaxEvents
    /\ \E w \in StoredWindows, up \in BOOLEAN :
         LET event == CalendarEvent(FreshId, w[1], w[1] + w[2])
         IN  /\ events' = IF up THEN events \cup {Row(event)} ELSE events
             /\ op' = "add_event"
             /\ call' = [event |-> event, up |-> up]
             /\ ret' = up
             /\ outcome' = "returned"
             /\ UNCHANGED <<conversation_context, last_interaction_time, workout_plans>>

\* SQLiteCalendar.delete_event(event_id): rows_affected > 0, False when sqlite3 raises
DeleteEvent ==
    /\ op = "idle"
    /\ \E i \in 1..(MaxEvents + 1), up \in BOOLEAN :
         LET event_id == IdPool[i]
         IN  /\ events' = IF up THEN { r \in events : r.id # event_id } ELSE events
             /\ op' = "delete_event"
             /\ call' = [event_id |-> event_id, up |-> up]
             /\ ret' = (up /\ event_id \in StoredIds)
             /\ outcome' = "returned"
             /\ UNCHANGED <<conversation_context, last_interaction_time, workout_plans>>

\* SQLiteCalendar.list_events(start_date, end_date): nothing catches what sqlite3 raises
ListEvents ==
    /\ op = "idle"
    /\ \E range \in ListRanges, up \in BOOLEAN :
         /\ op' = "list_events"
         /\ call' = [start_date |-> range[1], end_date |-> range[2], up |-> up]
         /\ ret' = IF up THEN list_events(events, range[1], range[2]) ELSE {}
         /\ outcome' = IF up THEN "returned" ELSE "raised"
         /\ UNCHANGED <<events, conversation_context, last_interaction_time, workout_plans>>

\* ConflictResolver._events_overlap(e1, e2), on a stored event and a candidate
OverlapCall ==
    /\ op = "idle"
    /\ \E r \in events, e2 \in CandidateEvents :
         /\ op' = "events_overlap"
         /\ call' = [e1 |-> FromRow(r), e2 |-> e2]
         /\ ret' = EventsOverlap(FromRow(r), e2)
         /\ outcome' = "returned"
         /\ UNCHANGED <<events, conversation_context, last_interaction_time, workout_plans>>

\* ConflictResolver.find_conflicting_events(new_event)
FindConflicts ==
    /\ op = "idle"
    /\ \E new_event \in CandidateEvents \cup InvalidCandidateEvents, up \in BOOLEAN :
         /\ op' = "find_conflicting_events"
         /\ call' = [new_event |-> new_event, up |-> up,
                     queries |-> FindQueries(new_event)]
         /\ ret' = FindConflictingEvents(events, up, new_event)
         /\ outcome' = "returned"
         /\ UNCHANGED <<events, conversation_context, last_interaction_time, workout_plans>>

\* ConflictResolver.suggest_alternative_times(new_event, base_time)
Suggest ==
    /\ op = "idle"
    /\ \E new_event \in CandidateEvents \cup InvalidCandidateEvents,
          base_time \in BaseTimes, now \in NowTimes, up \in BOOLEAN :
         /\ op' = "suggest_alternative_times"
         /\ call' = [new_event |-> new_event,
                     base_time |-> BaseTime(new_event, base_time),
                     now |-> now, up |-> up,
                     queries |-> SuggestQueries(BaseTime(new_event, base_time),
                                     new_event.end_time - new_event.start_time)]
         /\ ret' = SuggestAlternativeTimes(events, up, new_event, base_time, now)
         /\ outcome' = "returned"
         /\ UNCHANGED <<events, conversation_context, last_interaction_time, workout_plans>>

\* a mutation of get_available_slots: the probe events of the free slots are stored
AvailableSlotsPersisting ==
    /\ op = "idle"
    /\ \E date \in SlotDates, duration \in CandidateDurations, up \in BOOLEAN :
         LET slots == GetAvailableSlots(events, up, date, duration)
         IN  /\ op' = "get_available_slots"
             /\ call' = [date |-> date, duration |-> duration, up |-> up]
             /\ ret' = slots
             /\ outcome' = "returned"
             /\ events' = events \cup
                    { Row(CalendarEvent(TempCheckId, slots[i], slots[i] + duration)) :
                        i \in 1..Len(slots) }
             /\ UNCHANGED <<conversation_context, last_interaction_time, workout_plans>>

\* ConflictResolver.get_available_slots(date, duration)
AvailableSlots ==
    /\ op = "idle"
    /\ \E date \in SlotDates, duration \in CandidateDurations, up \in BOOLEAN :
         /\ op' = "get_available_slots"
         /\ call' = [date |-> date, duration |-> duration, up |-> up]
         /\ ret' = GetAvailableSlots(events, up, date, duration)
         /\ outcome' = "returned"
         /\ UNCHANGED <<events, conversation_context, last_interaction_time, workout_plans>>

\* the caller takes the result; the resolver keeps nothing between calls
Return ==
    /\ op # "idle"
    /\ op' = "idle"
    /\ call' = NoCall
    /\ ret' = NoCall
    /\ outcome' = "returned"
    /\ UNCHANGED <<events, conversation_context, last_interaction_time, workout_plans>>

Next ==
    \/ AddEvent
    \/ DeleteEvent
    \/ ListEvents
    \/ OverlapCall
    \/ FindConflicts
    \/ Suggest
    \/ AvailableSlots
    \/ Return

Spec == Init /\ [][Next]_vars

----------------------------------------------------------------------------
(* datetime.date: the calendar.  Day 0 of the time scale is January 1 of
   EpochYear; the extraction below runs on dates of that year and the next. *)

EpochYear == 2024

IsLeap(y) == (y % 4 = 0 /\ y % 100 # 0) \/ y % 400 = 0

DaysInMonth(y, m) ==
    IF m = 2 THEN (IF IsLeap(y) THEN 29 ELSE 28)
    ELSE IF m \in {4, 6, 9, 11} THEN 30 ELSE 31

\* date(year, month, day) raises ValueError unless the day exists
DateValid(y, m, d) == m \in 1..12 /\ d >= 1 /\ d <= DaysInMonth(y, m)

\* the days from January 1 of EpochYear to January 1 of year y
DaysBeforeYear(y) ==
    365 * (y - EpochYear) + Cardinality({ x \in EpochYear..(y - 1) : IsLeap(x) })

\* the days of a common year before the first of each month
DaysBeforeMonthTable == <<0, 31, 59, 90, 120, 151, 181, 212, 243, 273, 304, 334>>

DaysBeforeMonth(y, m) ==
    DaysBeforeMonthTable[m] + (IF m > 2 /\ IsLeap(y) THEN 1 ELSE 0)

\* date(y, m, d), as the number of its day
Ordinal(y, m, d) == DaysBeforeYear(y) + DaysBeforeMonth(y, m) + (d - 1)

\* the years of the calendar: EpochYear and the year after it
Years == { EpochYear, EpochYear + 1 }

\* the year, month and day of day number n
DateOf(n) ==
    CHOOSE dt \in { [year |-> y, month |-> m, day |-> n - Ordinal(y, m, 1) + 1] :
                      y \in Years, m \in 1..12 } :
        DateValid(dt.year, dt.month, dt.day)

----------------------------------------------------------------------------
(* text: a str is the sequence of its characters.  A Chinese character is
   written by its pinyin: ming tian = 明天, jin tian = 今天, shang wu_noon = 上午,
   xia wu_noon = 下午, wan shang = 晚上, zao shang = 早上, zao chen = 早晨,
   zhong wu_noon = 中午, bang wan = 傍晚, ye jian = 夜间, dian = 点,
   shi_hour = 时, ban = 半, hao = 号, ri = 日, nian = 年, kai hui = 开会,
   yi er san si wu_5 liu qi ba jiu shi_10 = 一二三四五六七八九十. *)

DigitChars == <<"0", "1", "2", "3", "4", "5", "6", "7", "8", "9">>

ChineseUnits == <<"yi", "er", "san", "si", "wu_5", "liu", "qi", "ba", "jiu">>

\* \d
IsDigit(c) == \E i \in 1..Len(DigitChars) : DigitChars[i] = c

DigitValue(c) == (CHOOSE i \in 1..Len(DigitChars) : DigitChars[i] = c) - 1

\* \s
IsSpace(c) == c = " "

\* the character at position i; "" where the text has none
CharAt(text, i) == IF i \in 1..Len(text) THEN text[i] ELSE ""

\* \w: letters, digits and CJK characters, that is all but the space and the colon
IsWordChar(c) == c \notin {"", " ", ":"}

\* \b before position i: exactly one of the characters around it is a word character
WordBoundary(text, i) == IsWordChar(CharAt(text, i - 1)) # IsWordChar(CharAt(text, i))

\* text[i:].startswith(word)
StartsWith(text, i, word) ==
    /\ i >= 1
    /\ i + Len(word) - 1 <= Len(text)
    /\ SubSeq(text, i, i + Len(word) - 1) = word

\* word in text
Contains(text, word) == \E i \in 1..Len(text) : StartsWith(text, i, word)

\* int(s) of a string of one to three digits
IntOf(s) ==
    IF Len(s) = 1 THEN DigitValue(s[1])
    ELSE IF Len(s) = 2 THEN 10 * DigitValue(s[1]) + DigitValue(s[2])
    ELSE 100 * DigitValue(s[1]) + 10 * DigitValue(s[2]) + DigitValue(s[3])

MingTian == <<"ming", "tian">>
JinTian == <<"jin", "tian">>
ShangWu == <<"shang", "wu_noon">>
XiaWu == <<"xia", "wu_noon">>
WanShang == <<"wan", "shang">>
ZaoShang == <<"zao", "shang">>
ZaoChen == <<"zao", "chen">>
ZhongWu == <<"zhong", "wu_noon">>
BangWan == <<"bang", "wan">>
YeJian == <<"ye", "jian">>
Ban == <<"ban">>

\* [点时]
ClockUnits == {"dian", "shi_hour"}

----------------------------------------------------------------------------
(* CalendarAgent._extract_datetime_from_text *)

\* chinese_number_map: the value of a key, None for a string that is no key
ChineseNumber(hour_str) ==
    LET unit(c) == IF \E i \in 1..Len(ChineseUnits) : ChineseUnits[i] = c
                   THEN CHOOSE i \in 1..Len(ChineseUnits) : ChineseUnits[i] = c
                   ELSE 0
    IN  IF Len(hour_str) = 1 /\ unit(hour_str[1]) > 0 THEN <<unit(hour_str[1])>>
        ELSE IF hour_str = <<"shi_10">> THEN <<10>>
        ELSE IF Len(hour_str) = 2 /\ hour_str[1] = "shi_10" /\ unit(hour_str[2]) > 0
             THEN <<10 + unit(hour_str[2])>>
        ELSE IF hour_str = <<"er", "shi_10">> THEN <<20>>
        ELSE IF Len(hour_str) = 3 /\ hour_str[1] = "er" /\ hour_str[2] = "shi_10"
                  /\ unit(hour_str[3]) \in 1..3
             THEN <<20 + unit(hour_str[3])>>
        ELSE None

\* [一二三四五六七八九十\d]
IsHourChar(c) ==
    IsDigit(c) \/ c = "shi_10" \/ \E i \in 1..Len(ChineseUnits) : ChineseUnits[i] = c

\* (上午|下午|晚上)
AgentPeriods == <<ShangWu, XiaWu, WanShang>>

\* ([...]{1,3})[点时] tried at position j: the length of the longest run of one
\* to three hour characters that a 点 or 时 follows, 0 when there is none
HourRunAt(text, j) ==
    LET ok(k) == /\ \A x \in j..(j + k - 1) : IsHourChar(CharAt(text, x))
                 /\ CharAt(text, j + k) \in ClockUnits
    IN  IF ok(3) THEN 3 ELSE IF ok(2) THEN 2 ELSE IF ok(1) THEN 1 ELSE 0

\* the pattern (上午|下午|晚上)?([...]{1,3})[点时]半? tried at position i: the
\* groups (period, hour_str) of the match, None when it does not match there
TimeMatchAt(text, i) ==
    LET found == { k \in 1..Len(AgentPeriods) : StartsWith(text, i, AgentPeriods[k]) }
        period == IF found = {} THEN None ELSE AgentPeriods[CHOOSE k \in found : TRUE]
        with == IF period = None THEN 0 ELSE HourRunAt(text, i + Len(period))
        without == HourRunAt(text, i)
    IN  IF with > 0
        THEN <<[period |-> period,
                hour_str |-> SubSeq(text, i + Len(period), i + Len(period) + with - 1)]>>
        ELSE IF without > 0
        THEN <<[period |-> None, hour_str |-> SubSeq(text, i, i + without - 1)]>>
        ELSE None

\* re.search: the match at the leftmost position that has one
TimeMatch(time_str) ==
    LET hits == { i \in 1..Len(time_str) : TimeMatchAt(time_str, i) # None }
    IN  IF hits = {} THEN None
        ELSE TimeMatchAt(time_str, CHOOSE i \in hits : \A j \in hits : i <= j)

\* a mutation of the conversion: 12 is promoted like the hours before it
PromoteHourThroughNoon(period, hour) ==
    IF period = XiaWu /\ hour <= 12 THEN hour + 12
    ELSE IF period = WanShang /\ hour <= 12 THEN hour + 12
    ELSE IF period = ShangWu /\ hour = 12 THEN 0
    ELSE IF period = None /\ hour < 8 THEN hour + 12
    ELSE hour

\* the conversion to the 24-hour clock
PromoteHour(period, hour) ==
    IF period = XiaWu /\ hour < 12 THEN hour + 12
    ELSE IF period = WanShang /\ hour < 12 THEN hour + 12
    ELSE IF period = ShangWu /\ hour = 12 THEN 0
    ELSE IF period = None /\ hour < 8 THEN hour + 12
    ELSE hour

\* parse_hour_from_text(time_str): <<[hour, minute]>>, or None for (None, None)
ParseHourFromText(time_str) ==
    LET time_match == TimeMatch(time_str)
    IN  IF time_match = None THEN None
        ELSE LET period == time_match[1].period
                 hour_str == time_match[1].hour_str
                 mapped == ChineseNumber(hour_str)
                 minute == IF Contains(time_str, Ban) THEN 30 ELSE 0
             IN  IF mapped # None
                 THEN <<[hour |-> PromoteHour(period, mapped[1]), minute |-> minute]>>
                 ELSE IF \A x \in 1..Len(hour_str) : IsDigit(hour_str[x])
                 THEN <<[hour |-> PromoteHour(period, IntOf(hour_str)), minute |-> minute]>>
                 ELSE None      \* int(hour_str) raises, the except returns None, None

\* a mutation of the date of tomorrow: the days of a month end with the 30th
BaseDateTomorrowShortMonth(now) ==
    IF DateOf(DayOf(now)).day >= 30 THEN DayOf(now) ELSE DayOf(now + MinutesPerDay)

\* (now + timedelta(days=1)).date()
BaseDateTomorrow(now) == DayOf(now + MinutesPerDay)

\* a mutation of the date of today: the day after
BaseDateTodayNextDay(now) == DayOf(now) + 1

\* datetime.now().date()
BaseDateToday(now) == DayOf(now)

\* time.replace(hour=hour, minute=minute) raises ValueError unless hour is in 0..23
TimeValid(hour, minute) == hour \in 0..(HoursPerDay - 1) /\ minute \in 0..(MinutesPerHour - 1)

\* datetime.combine(base_date, time.replace(hour, minute)) and the hour after it:
\* window is <<start_time, end_time>>; raised when time.replace raises ValueError
CombineWindow(base_date, parsed) ==
    IF ~TimeValid(parsed[1].hour, parsed[1].minute)
    THEN [raised |-> TRUE, window |-> None]
    ELSE LET start_time == At(base_date, parsed[1].hour, parsed[1].minute)
         IN  [raised |-> FALSE, window |-> <<start_time, start_time + MinutesPerHour>>]

\* str.lower(): the characters of the texts here have no upper case
Lower(text) == text

\* a variant that falls back to 09:00 of the resolved day when the text has
\* a day word and no clock time
ExtractDatetimeDayAtNine(text, now) ==
    LET text_lower == Lower(text)
        nine == <<[hour |-> 9, minute |-> 0]>>
        nothing == [raised |-> FALSE, window |-> None]
    IN  CHOOSE result \in
            { IF Contains(text_lower, MingTian)
              THEN CombineWindow(BaseDateTomorrow(now),
                                 IF parsed # None THEN parsed ELSE nine)
              ELSE IF Contains(text_lower, JinTian)
              THEN CombineWindow(BaseDateToday(now), IF parsed # None THEN parsed ELSE nine)
              ELSE IF parsed # None THEN CombineWindow(BaseDateToday(now), parsed)
              ELSE nothing :
                parsed \in {ParseHourFromText(text_lower)} } : TRUE

\* _extract_datetime_from_text(text), datetime.now() read as now; window is
\* None for the result (None, None)
ExtractDatetimeFromText(text, now) ==
    LET text_lower == Lower(text)
        nothing == [raised |-> FALSE, window |-> None]
    IN  CHOOSE result \in
            { IF Contains(text_lower, MingTian)
              THEN IF parsed # None THEN CombineWindow(BaseDateTomorrow(now), parsed)
                   ELSE nothing
              ELSE IF Contains(text_lower, JinTian)
              THEN IF parsed # None THEN CombineWindow(BaseDateToday(now), parsed)
                   ELSE nothing
              ELSE IF parsed # None THEN CombineWindow(BaseDateToday(now), parsed)
              ELSE nothing :
                parsed \in {ParseHourFromText(text_lower)} } : TRUE

----------------------------------------------------------------------------
(* LLMParser._extract_day_time_from_text *)

\* str.strip(): the spaces at both ends are dropped
RECURSIVE Strip(_)
Strip(text) ==
    IF text = <<>> THEN text
    ELSE IF IsSpace(Head(text)) THEN Strip(Tail(text))
    ELSE IF IsSpace(text[Len(text)]) THEN Strip(SubSeq(text, 1, Len(text) - 1))
    ELSE text

\* the smallest element of a non-empty set of positions
Leftmost(hits) == CHOOSE i \in hits : \A j \in hits : i <= j

\* \s* from position j on: the position of the first character that is no space
SkipSpaces(text, j) == Leftmost({ k \in j..(Len(text) + 1) : ~IsSpace(CharAt(text, k)) })

\* (号|日)
DayMarks == {"hao", "ri"}

\* \s*(号|日)\b from position j on
DayMarkAt(text, j) ==
    LET k == SkipSpaces(text, j)
    IN  CharAt(text, k) \in DayMarks /\ WordBoundary(text, k + 1)

\* (?P<day>\b[1-9]|[12][0-9]|3[01])\s*(号|日)\b tried at position i: the group
\* day of the first alternative that leads to a match, None when none does
DayMatchAt(text, i) ==
    IF /\ WordBoundary(text, i)
       /\ IsDigit(CharAt(text, i)) /\ CharAt(text, i) # "0"
       /\ DayMarkAt(text, i + 1)
    THEN <<SubSeq(text, i, i)>>
    ELSE IF /\ CharAt(text, i) \in {"1", "2"}
            /\ IsDigit(CharAt(text, i + 1))
            /\ DayMarkAt(text, i + 2)
    THEN <<SubSeq(text, i, i + 1)>>
    ELSE IF /\ CharAt(text, i) = "3"
            /\ CharAt(text, i + 1) \in {"0", "1"}
            /\ DayMarkAt(text, i + 2)
    THEN <<SubSeq(text, i, i + 1)>>
    ELSE None

\* (?P<day>\d{1,2})(?=号|日) tried at position i
DayLookaheadAt(text, i) ==
    IF IsDigit(CharAt(text, i)) /\ IsDigit(CharAt(text, i + 1))
          /\ CharAt(text, i + 2) \in DayMarks
    THEN <<SubSeq(text, i, i + 1)>>
    ELSE IF IsDigit(CharAt(text, i)) /\ CharAt(text, i + 1) \in DayMarks
    THEN <<SubSeq(text, i, i)>>
    ELSE None

\* m_day: the first pattern, and the second when the first finds nothing
DayMatch(text) ==
    LET first == { i \in 1..Len(text) : DayMatchAt(text, i) # None }
        second == { i \in 1..Len(text) : DayLookaheadAt(text, i) # None }
    IN  IF first # {} THEN DayMatchAt(text, Leftmost(first))
        ELSE IF second # {} THEN DayLookaheadAt(text, Leftmost(second))
        ELSE None

\* the month inference: candidate_date for the day of month, as a day number;
\* raised when date() raises ValueError in the except clause
ResolveDay(today, day) ==
    LET year == DateOf(today).year
        month == DateOf(today).month
        next_year == IF month = 12 THEN year + 1 ELSE year
        next_month == IF month = 12 THEN 1 ELSE month + 1
        clamped == IF day < 28 THEN day ELSE 28           \* min(day, 28)
        except == IF DateValid(next_year, next_month, clamped)
                  THEN [raised |-> FALSE, date |-> Ordinal(next_year, next_month, clamped)]
                  ELSE [raised |-> TRUE, date |-> today]
    IN  IF ~DateValid(year, month, day) THEN except
        ELSE IF Ordinal(year, month, day) < today
        THEN IF DateValid(next_year, next_month, day)
             THEN [raised |-> FALSE, date |-> Ordinal(next_year, next_month, day)]
             ELSE except
        ELSE [raised |-> FALSE, date |-> Ordinal(year, month, day)]

\* (?P<h>\b[0-2]?\d):(?P<m>[0-5]\d) tried at position i: the groups h and m
HourMinuteAt(text, i) ==
    LET minute_at(j) == /\ IsDigit(CharAt(text, j)) /\ DigitValue(CharAt(text, j)) <= 5
                        /\ IsDigit(CharAt(text, j + 1))
    IN  IF ~WordBoundary(text, i) THEN None
        ELSE IF /\ CharAt(text, i) \in {"0", "1", "2"}
                /\ IsDigit(CharAt(text, i + 1))
                /\ CharAt(text, i + 2) = ":"
                /\ minute_at(i + 3)
        THEN <<[h |-> SubSeq(text, i, i + 1), m |-> SubSeq(text, i + 3, i + 4)]>>
        ELSE IF /\ IsDigit(CharAt(text, i))
                /\ CharAt(text, i + 1) = ":"
                /\ minute_at(i + 2)
        THEN <<[h |-> SubSeq(text, i, i), m |-> SubSeq(text, i + 2, i + 3)]>>
        ELSE None

\* m_hm
HourMinuteMatch(text) ==
    LET hits == { i \in 1..Len(text) : HourMinuteAt(text, i) # None }
    IN  IF hits = {} THEN None ELSE HourMinuteAt(text, Leftmost(hits))

\* (上午|早上|早晨|中午|下午|晚上|傍晚|夜间)
ParserPeriods == <<ShangWu, ZaoShang, ZaoChen, ZhongWu, XiaWu, WanShang, BangWan, YeJian>>

\* \s*(?P<h>\d{1,2})\s*(点|时) from position j on: the group h
ClockHourAt(text, j) ==
    LET k == SkipSpaces(text, j)
    IN  IF /\ IsDigit(CharAt(text, k)) /\ IsDigit(CharAt(text, k + 1))
           /\ CharAt(text, SkipSpaces(text, k + 2)) \in ClockUnits
        THEN <<SubSeq(text, k, k + 1)>>
        ELSE IF /\ IsDigit(CharAt(text, k))
                /\ CharAt(text, SkipSpaces(text, k + 1)) \in ClockUnits
        THEN <<SubSeq(text, k, k)>>
        ELSE None

\* (?P<period>...)?\s*(?P<h>\d{1,2})\s*(点|时) tried at position i
PeriodClockAt(text, i) ==
    LET found == { k \in 1..Len(ParserPeriods) : StartsWith(text, i, ParserPeriods[k]) }
        period == IF found = {} THEN None ELSE ParserPeriods[CHOOSE k \in found : TRUE]
        with == IF period = None THEN None ELSE ClockHourAt(text, i + Len(period))
        without == ClockHourAt(text, i)
    IN  IF with # None THEN <<[period |-> period, h |-> with[1]]>>
        ELSE IF without # None THEN <<[period |-> None, h |-> without[1]]>>
        ELSE None

\* m_tm
PeriodClockMatch(text) ==
    LET hits == { i \in 1..Len(text) : PeriodClockAt(text, i) # None }
    IN  IF hits = {} THEN None ELSE PeriodClockAt(text, Leftmost(hits))

\* the time of day of the entity: hour, minute and time_period, each <<>> when
\* the entity has no such key, or <<value>>.  The time_period a qualifier
\* determines stays in a local variable; the entity gets the key only when that
\* variable is empty, from the hour
DayTimeClock(text) ==
    LET m_hm == HourMinuteMatch(text)
        m_tm == PeriodClockMatch(text)
        classify(hour) == IF 6 <= hour /\ hour < 12 THEN "morning"
                          ELSE IF 12 <= hour /\ hour < 14 THEN "noon"
                          ELSE IF 14 <= hour /\ hour < 18 THEN "afternoon"
                          ELSE "evening"
    IN  IF m_hm # None
        THEN [hour |-> <<IntOf(m_hm[1].h)>>, minute |-> <<IntOf(m_hm[1].m)>>,
              time_period |-> <<classify(IntOf(m_hm[1].h))>>]
        ELSE IF m_tm # None
        THEN LET period == m_tm[1].period
                 hour == IntOf(m_tm[1].h)
                 minute == IF Contains(text, Ban) THEN 30 ELSE 0
             IN  IF period \in {XiaWu, WanShang, BangWan, YeJian} /\ hour < 12
                 THEN [hour |-> <<(hour % 12) + 12>>, minute |-> <<minute>>,
                       time_period |-> None]
                 ELSE IF period \in {ShangWu, ZaoShang, ZaoChen} /\ hour = 12
                 THEN [hour |-> <<0>>, minute |-> <<minute>>, time_period |-> None]
                 ELSE IF period = ZhongWu
                 THEN [hour |-> <<hour>>, minute |-> <<minute>>, time_period |-> None]
                 ELSE [hour |-> <<hour>>, minute |-> <<minute>>,
                       time_period |-> <<classify(hour)>>]
        ELSE [hour |-> None, minute |-> None, time_period |-> None]

\* date.isoformat(): "YYYY-MM-DD", as its fields
IsoDate(n) == <<DateOf(n).year, DateOf(n).month, DateOf(n).day>>

\* _extract_day_time_from_text(text), datetime.now() read as now: entity is
\* None when the text names no day of the month, else <<the entity>>; raised
\* when date() raises in the except clause
ExtractDayTimeFromText(text, now) ==
    LET stripped == Strip(text)
        today == DayOf(now)
        m_day == DayMatch(stripped)
    IN  IF m_day = None THEN [raised |-> FALSE, entity |-> None]
        ELSE LET day == IntOf(m_day[1])
                 resolved == ResolveDay(today, day)
                 clock == DayTimeClock(stripped)
             IN  IF resolved.raised THEN [raised |-> TRUE, entity |-> None]
                 ELSE [raised |-> FALSE,
                       entity |-> <<[day_of_month |-> day,
                                     date |-> IsoDate(resolved.date),
                                     hour |-> clock.hour,
                                     minute |-> clock.minute,
                                     time_period |-> clock.time_period]>>]

----------------------------------------------------------------------------
(* the utterances the extraction runs on: each is put together from its parts,
   which stay known next to the text *)

\* the largest hour an utterance states in digits, and in Chinese numerals
MaxHour == 25
MaxChineseHour == 24

\* the largest day of the month an utterance names
MaxDayOfMonth == 32

\* str(n) of a number below 1000
DecimalText(n) ==
    IF n < 10 THEN <<DigitChars[n + 1]>>
    ELSE IF n < 100 THEN <<DigitChars[(n \div 10) + 1], DigitChars[(n % 10) + 1]>>
    ELSE <<DigitChars[(n \div 100) + 1], DigitChars[((n \div 10) % 10) + 1],
           DigitChars[(n % 10) + 1]>>

\* the two digits of a minute
TwoDigits(n) == <<DigitChars[(n \div 10) + 1], DigitChars[(n % 10) + 1]>>

\* a number from 1 to 29 in Chinese numerals
ChineseText(n) ==
    IF n < 10 THEN <<ChineseUnits[n]>>
    ELSE IF n = 10 THEN <<"shi_10">>
    ELSE IF n < 20 THEN <<"shi_10", ChineseUnits[n - 10]>>
    ELSE IF n = 20 THEN <<"er", "shi_10">>
    ELSE <<"er", "shi_10", ChineseUnits[n - 20]>>

\* the qualifiers of the time of day that utterances carry
UtterancePeriods == { None, ShangWu, ZaoShang, ZaoChen, ZhongWu, XiaWu, WanShang }

\* 半年会 (the half-year meeting) and 开会 (to have a meeting)
BanNianHui == <<"ban", "nian", "hui">>
KaiHui == <<"kai", "hui">>

\* 3点 and nothing else
Plain ==
    [lead |-> <<>>,             \* words before the day
     day |-> "none",            \* "none", "mingtian", "jintian" or "dom" (a day of the month)
     dom |-> 0,                 \* the day of the month
     daymark |-> "hao",         \* 号 or 日
     daygap |-> FALSE,          \* a space after the day
     period |-> None,           \* the qualifier
     gap |-> FALSE,             \* a space after the qualifier
     kind |-> "dian",           \* "dian" (N点), "hm" (HH:MM) or "none" (no time of day)
     numeral |-> "arabic",      \* the hour in digits or in Chinese numerals
     h |-> 3,
     m |-> 0,                   \* the minutes of HH:MM
     unit |-> "dian",           \* 点 or 时
     half |-> FALSE,            \* 半 after the unit
     tail |-> <<>>]             \* words after the time

\* the text of an utterance
TextOf(u) ==
    LET day_text == IF u.day = "mingtian" THEN MingTian
                    ELSE IF u.day = "jintian" THEN JinTian
                    ELSE IF u.day = "dom" THEN DecimalText(u.dom) \o <<u.daymark>>
                    ELSE <<>>
        hour_text == IF u.numeral = "chinese" THEN ChineseText(u.h) ELSE DecimalText(u.h)
        clock_text == IF u.kind = "dian"
                      THEN hour_text \o <<u.unit>> \o (IF u.half THEN Ban ELSE <<>>)
                      ELSE IF u.kind = "hm"
                      THEN DecimalText(u.h) \o <<":">> \o TwoDigits(u.m)
                      ELSE <<>>
    IN  u.lead \o day_text \o (IF u.daygap THEN <<" ">> ELSE <<>>)
           \o u.period \o (IF u.gap THEN <<" ">> ELSE <<>>)
           \o clock_text \o u.tail

\* [day] [qualifier] N点 [半], for every day word, qualifier and hour
ClockUtterances ==
    { [Plain EXCEPT !.day = d, !.period = p, !.h = h, !.half = b] :
        d \in {"none", "mingtian", "jintian"}, p \in UtterancePeriods,
        h \in 0..MaxHour, b \in BOOLEAN }
    \cup
    { [Plain EXCEPT !.day = d, !.period = p, !.numeral = "chinese", !.h = h, !.half = b] :
        d \in {"none", "mingtian", "jintian"}, p \in UtterancePeriods,
        h \in 1..MaxChineseHour, b \in BOOLEAN }

\* utterances with words around the time, a space, 时, HH:MM, or no time
OtherUtterances ==
    { [Plain EXCEPT !.day = "jintian", !.kind = "none", !.tail = KaiHui],       \* 今天开会
      [Plain EXCEPT !.day = "mingtian", !.kind = "hm", !.h = 15, !.m = 30,
                    !.tail = KaiHui],                                          \* 明天15:30开会
      [Plain EXCEPT !.day = "mingtian", !.daygap = TRUE, !.kind = "hm",
                    !.h = 9, !.m = 5],                                         \* 明天 9:05
      [Plain EXCEPT !.kind = "hm", !.h = 15, !.m = 30],                        \* 15:30
      [Plain EXCEPT !.lead = BanNianHui, !.day = "mingtian", !.period = XiaWu], \* 半年会明天下午3点
      [Plain EXCEPT !.lead = BanNianHui, !.period = XiaWu],                    \* 半年会下午3点
      [Plain EXCEPT !.lead = BanNianHui, !.period = XiaWu, !.half = TRUE],     \* 半年会下午3点半
      [Plain EXCEPT !.period = WanShang, !.gap = TRUE, !.h = 9],               \* 晚上 9点
      [Plain EXCEPT !.period = XiaWu, !.unit = "shi_hour"],                    \* 下午3时
      [Plain EXCEPT !.day = "mingtian", !.period = ShangWu, !.h = 10,
                    !.unit = "shi_hour", !.half = TRUE],                       \* 明天上午10时半
      [Plain EXCEPT !.day = "mingtian", !.period = XiaWu, !.tail = KaiHui],    \* 明天下午3点开会
      [Plain EXCEPT !.h = 234],                                                \* 234点
      [Plain EXCEPT !.day = "mingtian", !.tail = <<" ">>] }                    \* 明天3点 and a space

\* the times of day that follow a day of the month
DayClocks ==
    { [Plain EXCEPT !.kind = "none"],                                          \* no time
      [Plain EXCEPT !.period = XiaWu],                                         \* 下午3点
      Plain,                                                                   \* 3点
      [Plain EXCEPT !.period = ZaoShang, !.h = 5],                             \* 早上5点
      [Plain EXCEPT !.period = WanShang, !.h = 7, !.half = TRUE],              \* 晚上7点半
      [Plain EXCEPT !.period = XiaWu, !.h = 12],                               \* 下午12点
      [Plain EXCEPT !.period = ShangWu, !.h = 12],                             \* 上午12点
      [Plain EXCEPT !.period = ZhongWu, !.h = 12],                             \* 中午12点
      [Plain EXCEPT !.period = WanShang, !.gap = TRUE, !.h = 9],               \* 晚上 9点
      [Plain EXCEPT !.kind = "hm", !.h = 15, !.m = 30],                        \* 15:30
      [Plain EXCEPT !.daygap = TRUE, !.kind = "hm", !.h = 15, !.m = 30],       \* a space and 15:30
      [Plain EXCEPT !.daygap = TRUE, !.kind = "hm", !.h = 9, !.m = 5] }        \* a space and 9:05

\* N号 / N日 and a time of day, for every day number 0 .. MaxDayOfMonth
DayUtterances ==
    { [c EXCEPT !.day = "dom", !.dom = d, !.daymark = k] :
        c \in DayClocks, d \in 0..MaxDayOfMonth, k \in DayMarks }

\* the add requests
AddUtterances ==
    { [Plain EXCEPT !.day = "mingtian", !.period = XiaWu, !.tail = KaiHui],    \* 明天下午3点开会
      [Plain EXCEPT !.period = XiaWu],                                         \* 下午3点
      [Plain EXCEPT !.day = "dom", !.dom = 22, !.period = XiaWu],              \* 22号下午3点
      [Plain EXCEPT !.day = "dom", !.dom = 5, !.h = 10, !.tail = KaiHui],      \* 5号10点开会
      [Plain EXCEPT !.day = "jintian", !.kind = "none", !.tail = KaiHui],      \* 今天开会
      [Plain EXCEPT !.day = "mingtian", !.kind = "none", !.tail = KaiHui],     \* 明天开会
      [Plain EXCEPT !.kind = "none", !.tail = KaiHui],                         \* 开会
      [Plain EXCEPT !.day = "mingtian", !.kind = "hm", !.h = 15, !.m = 30,
                    !.tail = KaiHui],                                          \* 明天15:30开会
      [Plain EXCEPT !.h = MaxHour] }                                           \* 25点

\* the values of datetime.now() at which texts are read
ExtractNows ==
    { At(Ordinal(2024, 1, 15), 9, 0),
      At(Ordinal(2024, 1, 31), 18, 30),
      At(Ordinal(2024, 2, 29), 8, 0),
      At(Ordinal(2024, 4, 30), 12, 0),
      At(Ordinal(2024, 11, 30), 7, 45),
      At(Ordinal(2024, 12, 31), 23, 59),
      At(Ordinal(2025, 2, 10), 10, 0) }

\* the values of datetime.now() at which add requests are handled
AgentNows == { At(Ordinal(2024, 1, 15), 9, 0), At(Ordinal(2024, 12, 31), 23, 59) }

----------------------------------------------------------------------------
(* the extraction, one call at a time *)

\* parse_hour_from_text(time_str)
ParseHour ==
    /\ op = "idle"
    /\ \E u \in ClockUtterances \cup OtherUtterances \cup DayUtterances :
       \E time_str \in {TextOf(u)} :
         /\ op' = "parse_hour_from_text"
         /\ call' = [utterance |-> u, text |-> time_str]
         /\ ret' = ParseHourFromText(time_str)
         /\ outcome' = "returned"
         /\ UNCHANGED <<events, conversation_context, last_interaction_time, workout_plans>>

\* CalendarAgent._extract_datetime_from_text(text)
ExtractDatetime ==
    /\ op = "idle"
    /\ \E u \in ClockUtterances \cup OtherUtterances \cup DayUtterances,
          now \in ExtractNows :
       \E text \in {TextOf(u)} :
       \E result \in {ExtractDatetimeFromText(text, now)} :
         /\ op' = "extract_datetime_from_text"
         /\ call' = [utterance |-> u, text |-> text, now |-> now]
         /\ ret' = result.window
         /\ outcome' = IF result.raised THEN "raised" ELSE "returned"
         /\ UNCHANGED <<events, conversation_context, last_interaction_time, workout_plans>>

\* LLMParser._extract_day_time_from_text(text)
ExtractDayTime ==
    /\ op = "idle"
    /\ \E u \in DayUtterances \cup OtherUtterances, now \in ExtractNows :
       \E text \in {TextOf(u)} :
       \E result \in {ExtractDayTimeFromText(text, now)} :
         /\ op' = "extract_day_time_from_text"
         /\ call' = [utterance |-> u, text |-> text, now |-> now]
         /\ ret' = result.entity
         /\ outcome' = IF result.raised THEN "raised" ELSE "returned"
         /\ UNCHANGED <<events, conversation_context, last_interaction_time, workout_plans>>

NextExtract ==
    \/ ParseHour
    \/ ExtractDatetime
    \/ ExtractDayTime
    \/ Return

SpecExtract == Init /\ [][NextExtract]_vars

----------------------------------------------------------------------------
(* CalendarAgent: an add request *)

\* LLMParser.parse(text) for a text the LLM classifies as add_event: the
\* entities are updated with those of _extract_day_time_from_text
ParsedIntent(text, now) ==
    [intent_type |-> "add_event",
     original_text |-> text,
     entities |-> ExtractDayTimeFromText(text, now).entity]

\* CalendarAgent.handle_add_event(parsed_intent), after LLMParser.parse returned
\* the intent; the reply is "ask_time" (the time is asked for) or "confirm"
HandleAddEvent ==
    /\ op = "idle"
    /\ \E u \in AddUtterances, now \in AgentNows :
       \E text \in {TextOf(u)} :
       \E parsed_intent \in {ParsedIntent(text, now)} :
       \E result \in {ExtractDatetimeFromText(parsed_intent.original_text, now)} :
             /\ ~ExtractDayTimeFromText(text, now).raised
             /\ op' = "handle_add_event"
             /\ call' = [utterance |-> u, text |-> text, now |-> now,
                         parsed_intent |-> parsed_intent,
                         extracted |-> result.window]
             /\ IF result.raised
                THEN /\ outcome' = "raised"
                     /\ ret' = NoCall
                     /\ UNCHANGED conversation_context
                ELSE IF result.window = None
                THEN /\ outcome' = "returned"
                     /\ ret' = "ask_time"
                     /\ conversation_context' =
                            [conversation_context EXCEPT
                                !.pending_intent = <<parsed_intent>>,
                                !.pending_action = <<"add_event">>]
                ELSE /\ outcome' = "returned"
                     /\ ret' = "confirm"
                     /\ conversation_context' =
                            [conversation_context EXCEPT
                                !.pending_event = <<CalendarEvent(FreshId,
                                                      result.window[1], result.window[2])>>,
                                !.pending_action = <<"add">>]
             /\ UNCHANGED <<events, last_interaction_time, workout_plans>>

NextAgent ==
    \/ HandleAddEvent
    \/ Return

SpecAgent == Init /\ [][NextAgent]_vars

----------------------------------------------------------------------------
(* CalendarAgent: the dialogue.  The events carry their title here. *)

\* models.CalendarEvent(id, title, start_time, end_time)
TitledEvent(id, title, start_time, end_time) ==
    [id |-> id, title |-> title, start_time |-> start_time, end_time |-> end_time]

\* the row INSERTed by add_event, with its title
TitledRow(event) ==
    [id |-> event.id, title |-> event.title,
     start_time |-> IsoFormat(event.start_time),
     end_time |-> IsoFormat(event.end_time)]

\* the CalendarEvent list_events builds from a row
EventOfRow(r) ==
    TitledEvent(r.id, r.title, ParseDatetime(r.start_time), ParseDatetime(r.end_time))

\* uuid4 ids of the events made in the dialogue
DialogueIds == <<"d1", "d2", "d3", "d4", "d5", "d6">>

\* the position of an id in DialogueIds: the order in which uuid4 gave the ids
IdIndex(id) == CHOOSE i \in 1..Len(DialogueIds) : DialogueIds[i] = id

\* ORDER BY start_time; rows of equal start_time come in the order of their ids
RowBefore(x, y) ==
    \/ (TextLeq(x.start_time, y.start_time) /\ x.start_time # y.start_time)
    \/ (x.start_time = y.start_time /\ IdIndex(x.id) < IdIndex(y.id))

\* SELECT * FROM events WHERE start_time >= ? AND start_time <= ? ORDER BY
\* start_time, as the list of the events
ListTitledEvents(rows, start_date, end_date) ==
    LET found == { x \in rows :
                     /\ TextLeq(IsoFormat(start_date), x.start_time)
                     /\ TextLeq(x.start_time, IsoFormat(end_date)) }
    IN  [i \in 1..Cardinality(found) |->
            EventOfRow(CHOOSE x \in found :
                          Cardinality({ y \in found : RowBefore(y, x) }) = i - 1)]

\* SQLiteCalendar.add_event(event): the rows after it, and True, or False when
\* sqlite3 raises (up is whether the database can be written)
add_event(rows, event, up) ==
    [rows |-> IF up THEN rows \cup {TitledRow(event)} ELSE rows, success |-> up]

\* SQLiteCalendar.modify_event(event_id, {start_time, end_time}): UPDATE events
\* SET start_time = ?, end_time = ? WHERE id = ?; rows_affected > 0
modify_event(rows, event_id, new_start_time, new_end_time, up) ==
    [rows |-> IF up
              THEN { IF r.id = event_id
                     THEN [r EXCEPT !.start_time = IsoFormat(new_start_time),
                                    !.end_time = IsoFormat(new_end_time)]
                     ELSE r : r \in rows }
              ELSE rows,
     success |-> up /\ (\E r \in rows : r.id = event_id)]

\* SQLiteCalendar.delete_event(event_id): DELETE FROM events WHERE id = ?;
\* rows_affected > 0
delete_event(rows, event_id, up) ==
    [rows |-> IF up THEN { r \in rows : r.id # event_id } ELSE rows,
     success |-> up /\ (\E r \in rows : r.id = event_id)]

\* 训练
XunLian == <<"xun", "lian">>

\* SQLiteCalendar.delete_workout_events(): DELETE FROM events WHERE title LIKE
\* '%训练%'; the number of rows deleted, 0 when sqlite3 raises
delete_workout_events(rows, up) ==
    [rows |-> IF up THEN { r \in rows : ~Contains(r.title, XunLian) } ELSE rows,
     deleted |-> IF up THEN Cardinality({ r \in rows : Contains(r.title, XunLian) }) ELSE 0]

\* uuid4(): the n-th of the ids that are not in use
NthFreshId(used, n) ==
    DialogueIds[CHOOSE i \in 1..Len(DialogueIds) :
                  /\ DialogueIds[i] \notin used
                  /\ Cardinality({ j \in 1..(i - 1) : DialogueIds[j] \notin used }) = n - 1]

\* the pool still has n ids that are not in use
HasFreshIds(used, n) ==
    Cardinality({ i \in 1..Len(DialogueIds) : DialogueIds[i] \notin used }) >= n

\* the words of the messages
QueRen == <<"que", "ren">>              \* 确认
QueDing == <<"que", "ding">>            \* 确定
ShiDe == <<"shi_yes", "de">>            \* 是的
HaoDe == <<"hao_good", "de">>           \* 好的
Shi == <<"shi_yes">>                    \* 是
QuXiao == <<"qu", "xiao">>              \* 取消
BuYao == <<"bu", "yao">>                \* 不要
BuShi == <<"bu", "shi_yes">>            \* 不是
Fou == <<"fou">>                        \* 否
Bu == <<"bu">>                          \* 不
ShanChu == <<"shan", "chu">>            \* 删除
XiuGai == <<"xiu", "gai">>              \* 修改
Ba == <<"ba_take">>                     \* 把
TiaoZheng == <<"tiao", "zheng">>        \* 调整
De == <<"de">>                          \* 的
ShiJian == <<"shi_hour", "jian">>       \* 时间
Dao == <<"dao">>                        \* 到
HuiYi == <<"hui", "yi_meet">>           \* 会议
SuoYou == <<"suo", "you">>              \* 所有
QuanBu == <<"quan", "bu_part">>         \* 全部
Dian == <<"dian">>                      \* 点

\* timedelta(hours=1), timedelta(hours=2) and 1800 seconds, in minutes
OneHour == 60
TwoHours == 120
HalfHour == 30

\* what a handler leaves behind: the context, the rows of the two tables, the
\* reply, the event the reply is about and the events it lists; raised when an
\* exception left the handler; handled is the intent process_input acted on
Result(ctx, rows, plans, reply, event, listed) ==
    [context |-> ctx, rows |-> rows, plans |-> plans, reply |-> reply,
     event |-> event, listed |-> listed, raised |-> FALSE, handled |-> "none"]

Raise(ctx, rows, plans) ==
    [context |-> ctx, rows |-> rows, plans |-> plans, reply |-> "error",
     event |-> None, listed |-> <<>>, raised |-> TRUE, handled |-> "none"]

\* the ids in use: those of the rows and those of the events the context holds
UsedIds(ctx, rows) ==
    { r.id : r \in rows }
      \cup { e.id : e \in { ctx.pending_event[i] : i \in 1..Len(ctx.pending_event) } }
      \cup { e.id : e \in { ctx.event_to_modify[i] : i \in 1..Len(ctx.event_to_modify) } }
      \cup { e.id : e \in { ctx.event_to_delete[i] : i \in 1..Len(ctx.event_to_delete) } }
      \cup (IF ctx.available_events = None THEN {}
            ELSE { ctx.available_events[1][i].id : i \in 1..Len(ctx.available_events[1]) })
      \cup (IF ctx.events_to_delete = None THEN {}
            ELSE { ctx.events_to_delete[1][i] : i \in 1..Len(ctx.events_to_delete[1]) })

\* the length of the run of digits (\d+) that starts at position j, 0 to 3
DigitRunAt(text, j) ==
    IF ~IsDigit(CharAt(text, j)) THEN 0
    ELSE IF ~IsDigit(CharAt(text, j + 1)) THEN 1
    ELSE IF ~IsDigit(CharAt(text, j + 2)) THEN 2
    ELSE 3

\* re.search(prefix + r'(\d+)点', text): the hour of the leftmost match, None
\* when there is no match
PrefixedHour(text, prefix) ==
    LET at(i) == /\ StartsWith(text, i, prefix)
                 /\ \E k \in 1..3 :
                      /\ \A x \in 0..(k - 1) : IsDigit(CharAt(text, i + Len(prefix) + x))
                      /\ CharAt(text, i + Len(prefix) + k) = "dian"
        hits == { i \in 1..Len(text) : at(i) }
        i0 == Leftmost(hits)
        k0 == DigitRunAt(text, i0 + Len(prefix))
    IN  IF hits = {} THEN None
        ELSE <<IntOf(SubSeq(text, i0 + Len(prefix), i0 + Len(prefix) + k0 - 1))>>

\* _extract_original_time_for_matching(text): the patterns 下午(\d+)点,
\* 上午(\d+)点, 晚上(\d+)点 and (\d+)点 in this order, the first that matches
\* gives the hour on tomorrow's date; (\d+):(\d+) gives nothing; time is None
\* or <<the datetime>>, raised when time.replace raises ValueError
ExtractOriginalTimeForMatching(text, now) ==
    LET tomorrow == DayOf(now) + 1
        xia == PrefixedHour(text, XiaWu)
        shang == PrefixedHour(text, ShangWu)
        wan == PrefixedHour(text, WanShang)
        plain == PrefixedHour(text, <<>>)
        hour == IF xia # None THEN <<IF xia[1] < 12 THEN xia[1] + 12 ELSE xia[1]>>
                ELSE IF shang # None THEN <<IF shang[1] = 12 THEN 0 ELSE shang[1]>>
                ELSE IF wan # None THEN <<IF wan[1] < 12 THEN wan[1] + 12 ELSE wan[1]>>
                ELSE plain
    IN  IF hour = None THEN [raised |-> FALSE, time |-> None]
        ELSE IF ~TimeValid(hour[1], 0) THEN [raised |-> TRUE, time |-> None]
        ELSE [raised |-> FALSE, time |-> <<At(tomorrow, hour[1], 0)>>]

\* re.search(verb + r'(.+?)(?:的|时间)', text): the group of the leftmost
\* match, the shortest there, None when there is no match
VerbPart(text, verb) ==
    LET ends(i, k) == \/ StartsWith(text, i + Len(verb) + k, De)
                      \/ StartsWith(text, i + Len(verb) + k, ShiJian)
        hits == { i \in 1..Len(text) :
                    StartsWith(text, i, verb) /\ \E k \in 1..Len(text) : ends(i, k) }
        i0 == Leftmost(hits)
        k0 == Leftmost({ k \in 1..Len(text) : ends(i0, k) })
    IN  IF hits = {} THEN None
        ELSE <<SubSeq(text, i0 + Len(verb), i0 + Len(verb) + k0 - 1)>>

\* _extract_original_time_from_text(text): the text between 修改, 把 or 调整
\* and the next 的 or 时间, read by _extract_datetime_from_text
ExtractOriginalTimeFromText(text, now) ==
    CHOOSE result \in
        { IF part = None THEN [raised |-> FALSE, window |-> None]
          ELSE ExtractDatetimeFromText(part[1], now) :
            part \in {IF VerbPart(text, XiuGai) # None THEN VerbPart(text, XiuGai)
                      ELSE IF VerbPart(text, Ba) # None THEN VerbPart(text, Ba)
                      ELSE VerbPart(text, TiaoZheng)} } : TRUE

\* _extract_event_title_intelligently(text, entities): the title the LLM
\* named; the messages of the dialogue all come with one, so the local
\* extraction of a title is never the result
ExtractEventTitleIntelligently(text, entities) == entities.title

\* the events of a list that pass a test, in the order of the list
Keep(list, Test(_)) == SelectSeq(list, Test)

\* a in b, of two strings
In(a, b) == a = <<>> \/ Contains(b, a)

\* CalendarAgent.handle_add_event(parsed_intent) in the dialogue: the title is
\* the one of the entities, the window the one read from the text
handle_add_event(ctx, rows, plans, parsed_intent, now) ==
    CHOOSE reply \in
        { IF result.raised THEN Raise(ctx, rows, plans)
          ELSE IF result.window = None
          THEN Result([ctx EXCEPT !.pending_intent = <<parsed_intent>>,
                                  !.pending_action = <<"add_event">>],
                      rows, plans, "ask_time", None, <<>>)
          ELSE CHOOSE proposed \in
                   { Result([ctx EXCEPT !.pending_event = <<event>>,
                                        !.pending_action = <<"add">>],
                            rows, plans, "confirm_add", <<event>>, <<>>) :
                       event \in {TitledEvent(NthFreshId(UsedIds(ctx, rows), 1),
                                              parsed_intent.entities.title,
                                              result.window[1], result.window[2])} } : TRUE :
            result \in {ExtractDatetimeFromText(parsed_intent.original_text, now)} } : TRUE

\* handle_modify_event once the new time, the events of the next days and the
\* time named for the old event are known: the matches by title come before
\* those by time, a single event is taken when nothing matches, then the time
\* after 修改, 把 or 调整 is tried
MatchEventToModify(ctx, rows, plans, event_title, new, all_events, for_matching, from_text) ==
    LET exact(e) == event_title = e.title
        partial(e) == ~exact(e) /\ (In(event_title, e.title) \/ In(e.title, event_title))
        untitled(e) == ~exact(e) /\ ~partial(e)
        timed(e) == /\ untitled(e)
                    /\ for_matching.time # None
                    /\ Distance(e.start_time, for_matching.time[1]) < HalfHour
        near(e) == /\ from_text.window # None
                   /\ Distance(e.start_time, from_text.window[1]) < OneHour
        listing(list) ==
            Result([ctx EXCEPT !.available_events = <<list>>,
                               !.modify_new_time = <<<<new.window[1], new.window[2]>>>>,
                               !.pending_modify_action = <<TRUE>>],
                   rows, plans, "list_modify", None, list)
    IN  IF \E i \in 1..Len(all_events) : untitled(all_events[i]) /\ for_matching.raised
        THEN Raise(ctx, rows, plans)
        ELSE CHOOSE reply \in
            { IF matches[4] = <<>> /\ from_text.raised THEN Raise(ctx, rows, plans)
              ELSE CHOOSE decided \in
                  { IF matching_events = <<>>
                    THEN IF all_events # <<>>
                         THEN listing(all_events)
                         ELSE Result(ctx, rows, plans, "no_events_to_modify", None, <<>>)
                    ELSE IF Len(matching_events) > 1
                    THEN listing(matching_events)
                    ELSE Result([ctx EXCEPT !.event_to_modify = <<matching_events[1]>>,
                                            !.new_start_time = <<new.window[1]>>,
                                            !.new_end_time = <<new.window[2]>>],
                                rows, plans, "confirm_modify", <<matching_events[1]>>, <<>>) :
                      matching_events \in {IF matches[4] = <<>> THEN Keep(all_events, near)
                                           ELSE matches[4]} } : TRUE :
                matches \in
                    { <<exact_matches, partial_matches, time_matches,
                        IF exact_matches = <<>> /\ partial_matches = <<>>
                           /\ time_matches = <<>> /\ Len(all_events) = 1
                        THEN all_events
                        ELSE IF exact_matches # <<>> THEN exact_matches
                        ELSE IF partial_matches # <<>> THEN partial_matches
                        ELSE time_matches>> :
                        exact_matches \in {Keep(all_events, exact)},
                        partial_matches \in {Keep(all_events, partial)},
                        time_matches \in {Keep(all_events, timed)} } } : TRUE

\* CalendarAgent.handle_modify_event(parsed_intent); list_events raises what
\* sqlite3 raises when the database cannot be read (up is FALSE)
handle_modify_event(ctx, rows, plans, parsed_intent, now, up) ==
    CHOOSE reply \in
        { IF new.raised THEN Raise(ctx, rows, plans)
          ELSE IF new.window = None
          THEN Result(ctx, rows, plans, "ask_new_time", None, <<>>)
          ELSE IF ~up THEN Raise(ctx, rows, plans)
          ELSE MatchEventToModify(ctx, rows, plans,
                                  ExtractEventTitleIntelligently(parsed_intent.original_text,
                                                                 parsed_intent.entities),
                                  new, all_events, for_matching, from_text) :
            new \in {ExtractDatetimeFromText(parsed_intent.original_text, now)},
            all_events \in {ListTitledEvents(rows, At(DayOf(now), 0, 0),
                                             At(DayOf(now) + 2, HoursPerDay - 1,
                                                MinutesPerHour - 1))},
            for_matching \in {ExtractOriginalTimeForMatching(parsed_intent.original_text, now)},
            from_text \in {ExtractOriginalTimeFromText(parsed_intent.original_text, now)} } : TRUE

\* handle_delete_event, the events found listed with their numbers
ListToDelete(ctx, rows, plans, list) ==
    Result([ctx EXCEPT !.available_events = <<list>>, !.pending_delete_action = <<TRUE>>],
           rows, plans, "list_delete", None, list)

\* handle_delete_event for a text that names a time: the events that start
\* within two hours of it are looked up, those within an hour match
DeleteEventNear(ctx, rows, plans, delete_start_time) ==
    CHOOSE reply \in
        { IF events_in_range = <<>>
          THEN Result(ctx, rows, plans, "none_near", None, <<>>)
          ELSE CHOOSE chosen \in
              { IF matching_events = <<>> THEN ListToDelete(ctx, rows, plans, events_in_range)
                ELSE IF Len(matching_events) = 1
                THEN Result([ctx EXCEPT !.event_to_delete = <<matching_events[1]>>],
                            rows, plans, "confirm_delete", <<matching_events[1]>>, <<>>)
                ELSE ListToDelete(ctx, rows, plans, matching_events) :
                  matching_events \in
                      {Keep(events_in_range,
                            LAMBDA e : Distance(e.start_time, delete_start_time) < OneHour)} } : TRUE :
            events_in_range \in {ListTitledEvents(rows, delete_start_time - TwoHours,
                                                  delete_start_time + TwoHours)} } : TRUE

\* handle_delete_event for a text that names a day and no time
DeleteEventOfDay(ctx, rows, plans, original_text, now) ==
    LET tomorrow_start == At(DayOf(now) + 1, 0, 0)
        tomorrow_end == At(DayOf(now) + 1, HoursPerDay - 1, MinutesPerHour - 1)
        today_start == At(DayOf(now), 0, 0)
        today_end == At(DayOf(now), HoursPerDay - 1, MinutesPerHour - 1)
    IN  CHOOSE reply \in
        { IF Contains(original_text, MingTian) /\ Contains(original_text, SuoYou)
          THEN IF tomorrows = <<>>
               THEN Result(ctx, rows, plans, "none_tomorrow", None, <<>>)
               ELSE Result([ctx EXCEPT
                               !.events_to_delete =
                                   <<[i \in 1..Len(tomorrows) |-> tomorrows[i].id]>>,
                               !.delete_range = <<<<tomorrow_start, tomorrow_end>>>>],
                           rows, plans, "confirm_delete_all", None, tomorrows)
          ELSE IF Contains(original_text, MingTian)
          THEN IF tomorrows = <<>>
               THEN Result(ctx, rows, plans, "none_tomorrow", None, <<>>)
               ELSE ListToDelete(ctx, rows, plans, tomorrows)
          ELSE IF Contains(original_text, JinTian)
          THEN IF todays = <<>>
               THEN Result(ctx, rows, plans, "none_today", None, <<>>)
               ELSE ListToDelete(ctx, rows, plans, todays)
          ELSE Result(ctx, rows, plans, "ask_delete_time", None, <<>>) :
            tomorrows \in {ListTitledEvents(rows, tomorrow_start, tomorrow_end)},
            todays \in {ListTitledEvents(rows, today_start, today_end)} } : TRUE

\* CalendarAgent.handle_delete_event(parsed_intent); list_events raises what
\* sqlite3 raises when the database cannot be read (up is FALSE)
handle_delete_event(ctx, rows, plans, parsed_intent, now, up) ==
    CHOOSE reply \in
        { IF delete.raised THEN Raise(ctx, rows, plans)
          ELSE IF ~up /\ (\/ delete.window # None
                          \/ Contains(Lower(parsed_intent.original_text), MingTian)
                          \/ Contains(Lower(parsed_intent.original_text), JinTian))
          THEN Raise(ctx, rows, plans)
          ELSE IF delete.window # None
          THEN DeleteEventNear(ctx, rows, plans, delete.window[1])
          ELSE DeleteEventOfDay(ctx, rows, plans, Lower(parsed_intent.original_text), now) :
            delete \in {ExtractDatetimeFromText(Lower(parsed_intent.original_text), now)} } : TRUE

\* str.isdigit(): a text of digits, and not the empty one
IsDigitText(text) == text # <<>> /\ \A i \in 1..Len(text) : IsDigit(text[i])

\* the title of a training event: 训练：and the focus of the workout
WorkoutTitle == XunLian \o <<"colon_wide", "focus">>

\* datetime.replace(hour=19, minute=0, second=0): training starts at 19:00
TrainingHour == 19

\* the days of a week
DaysPerWeek == 7

\* _add_workout_plan_to_calendar(workout_plan): the events of the plan, one for
\* each session of each week, each added by add_event
WorkoutEvents(workout_plan, used) ==
    { TitledEvent(NthFreshId(used, week * workout_plan.sessions_per_week + session + 1),
                  WorkoutTitle,
                  At(DayOf(workout_plan.start_date) + week * DaysPerWeek
                         + session * (DaysPerWeek \div workout_plan.sessions_per_week),
                     TrainingHour, 0),
                  At(DayOf(workout_plan.start_date) + week * DaysPerWeek
                         + session * (DaysPerWeek \div workout_plan.sessions_per_week),
                     TrainingHour, 0) + workout_plan.session_duration) :
        week \in 0..(workout_plan.plan_duration - 1),
        session \in 0..(workout_plan.sessions_per_week - 1) }

\* SQLiteCalendar.add_workout_plan(workout_plan): True, or False when sqlite3 raises
add_workout_plan(plans, workout_plan, up) ==
    [plans |-> IF up THEN plans \cup {workout_plan.id} ELSE plans, success |-> up]

\* the keys handle_confirm_action removes when nothing is pending
ClearLeftovers(ctx) ==
    [ctx EXCEPT !.pending_modify_action = None, !.selected_event_index = None,
                !.available_events = None, !.modify_new_time = None,
                !.pending_event = None, !.pending_action = None,
                !.pending_intent = None, !.event_to_modify = None,
                !.new_start_time = None, !.new_end_time = None,
                !.events_to_delete = None, !.delete_range = None,
                !.event_to_delete = None, !.pending_delete_action = None,
                !.workout_plan_stage = None, !.workout_plan_data = None]

\* handle_confirm_action, the confirmation of a training plan
ConfirmWorkoutPlan(ctx, rows, plans, up) ==
    LET reply(stored, added) ==
            IF stored.success
            THEN Result([ctx EXCEPT !.workout_plan_stage = <<"completed">>,
                                    !.pending_workout_plan = None,
                                    !.user_profile = None,
                                    !.workout_plan_data = None],
                        rows \cup { TitledRow(e) : e \in added }, stored.plans,
                        "workout_added", None, <<>>)
            ELSE Result(ctx, rows, plans, "workout_failed", None, <<>>)
    IN  CHOOSE result \in
            { reply(stored, added) :
                stored \in {add_workout_plan(plans, ctx.pending_workout_plan[1], up)},
                added \in {WorkoutEvents(ctx.pending_workout_plan[1],
                                         UsedIds(ctx, rows))} } : TRUE

\* handle_confirm_action, the confirmation after an event was chosen by its
\* number for a modification
ConfirmSelectedModify(ctx, rows, plans, up) ==
    LET event_index == ctx.selected_event_index[1]
        available_events == IF ctx.available_events = None THEN <<>>
                            ELSE ctx.available_events[1]
        new_time == IF ctx.modify_new_time = None THEN None ELSE ctx.modify_new_time[1]
        reply(target_event, done) ==
            Result([ctx EXCEPT !.pending_modify_action = None,
                               !.selected_event_index = None,
                               !.available_events = None,
                               !.modify_new_time = None],
                   done.rows, plans,
                   IF done.success THEN "modified" ELSE "modify_failed",
                   <<target_event>>, <<>>)
    IN  IF ctx.selected_event_index = None
        THEN Result(ctx, rows, plans, "select_first", None, <<>>)
        ELSE IF 0 <= event_index /\ event_index < Len(available_events) /\ new_time # None
        THEN CHOOSE result \in
                 { reply(target_event, done) :
                     target_event \in {available_events[event_index + 1]},
                     done \in {modify_event(rows, available_events[event_index + 1].id,
                                            new_time[1], new_time[2], up)} } : TRUE
        ELSE Result(ctx, rows, plans, "selection_invalid", None, <<>>)

\* handle_confirm_action from 'event_to_modify' on: the pending entries are
\* looked for in the order modify, delete, delete all, add, add without a time
ConfirmPending(ctx, rows, plans, now, up) ==
    LET modify(modified) ==
            IF modified.success
            THEN Result([ctx EXCEPT !.event_to_modify = None,
                                    !.new_start_time = None,
                                    !.new_end_time = None],
                        modified.rows, plans, "modified", ctx.event_to_modify, <<>>)
            ELSE Result(ctx, modified.rows, plans, "modify_failed",
                        ctx.event_to_modify, <<>>)
        delete(deleted) ==
            Result([ctx EXCEPT !.event_to_delete = None,
                               !.available_events = None,
                               !.pending_delete_action = None],
                   deleted.rows, plans,
                   IF deleted.success THEN "deleted" ELSE "delete_failed",
                   ctx.event_to_delete, <<>>)
        delete_all(event_ids) ==
            Result([ctx EXCEPT !.events_to_delete = None, !.delete_range = None],
                   IF up
                   THEN { r \in rows : \A i \in 1..Len(event_ids) : r.id # event_ids[i] }
                   ELSE rows,
                   plans, "deleted_count", None, <<>>)
        add(added) ==
            IF added.success
            THEN Result([ctx EXCEPT !.pending_event = None, !.pending_action = None],
                        added.rows, plans, "added", ctx.pending_event, <<>>)
            ELSE Result(ctx, added.rows, plans, "add_failed", ctx.pending_event, <<>>)
    IN  IF ctx.event_to_modify # None
        THEN IF ctx.new_start_time = None \/ ctx.new_end_time = None
             THEN Raise(ctx, rows, plans)
             ELSE CHOOSE result \in
                      { modify(modified) :
                          modified \in {modify_event(rows, ctx.event_to_modify[1].id,
                                                     ctx.new_start_time[1],
                                                     ctx.new_end_time[1], up)} } : TRUE
        ELSE IF ctx.event_to_delete # None
        THEN CHOOSE result \in
                 { delete(deleted) :
                     deleted \in {delete_event(rows, ctx.event_to_delete[1].id, up)} } : TRUE
        ELSE IF ctx.events_to_delete # None
        THEN IF ctx.delete_range = None
             THEN Raise(ctx, rows, plans)
             ELSE delete_all(ctx.events_to_delete[1])
        ELSE IF ctx.pending_event # None
        THEN IF ctx.pending_action = <<"add">>
             THEN CHOOSE result \in
                      { add(added) :
                          added \in {add_event(rows, ctx.pending_event[1], up)} } : TRUE
             ELSE Result(ctx, rows, plans, "none", None, <<>>)
        ELSE IF ctx.pending_action = <<"add_event">>
        THEN IF ctx.pending_intent # None
             THEN handle_add_event([ctx EXCEPT !.pending_action = None,
                                               !.pending_intent = None],
                                   rows, plans, ctx.pending_intent[1], now)
             ELSE Result(ctx, rows, plans, "reenter", None, <<>>)
        ELSE Result(ClearLeftovers(ctx), rows, plans, "nothing_pending", None, <<>>)

\* CalendarAgent.handle_confirm_action(parsed_intent)
handle_confirm_action(ctx, rows, plans, parsed_intent, now, up) ==
    LET original_text == Strip(parsed_intent.original_text)
        numbered == IsDigitText(original_text) /\ ctx.available_events # None
        event_index == IntOf(original_text) - 1
        in_range == 0 <= event_index /\ event_index < Len(ctx.available_events[1])
        prompt(target_event) ==
            IF ctx.pending_modify_action # None
            THEN IF ctx.modify_new_time = None
                 THEN Raise(ctx, rows, plans)
                 ELSE Result([ctx EXCEPT !.selected_event_index = <<event_index>>],
                             rows, plans, "confirm_modify", <<target_event>>, <<>>)
            ELSE Result([ctx EXCEPT !.event_to_delete = <<target_event>>],
                        rows, plans, "confirm_delete", <<target_event>>, <<>>)
    IN  IF ctx.pending_workout_plan # None
        THEN ConfirmWorkoutPlan(ctx, rows, plans, up)
        ELSE IF ctx.pending_modify_action = <<TRUE>>
        THEN ConfirmSelectedModify(ctx, rows, plans, up)
        ELSE IF numbered /\ ~in_range
        THEN Result(ctx, rows, plans, "invalid_number", None, <<>>)
        ELSE IF numbered /\ (ctx.pending_modify_action # None
                                \/ ctx.pending_delete_action # None)
        THEN prompt(ctx.available_events[1][event_index + 1])
        ELSE ConfirmPending(ctx, rows, plans, now, up)

\* CalendarAgent.handle_cancel_action(parsed_intent)
handle_cancel_action(ctx, rows, plans) ==
    IF ctx.pending_workout_plan # None
    THEN Result([ctx EXCEPT !.pending_workout_plan = None,
                            !.workout_plan_stage = None,
                            !.user_profile = None,
                            !.workout_plan_data = None],
                rows, plans, "workout_cancelled", None, <<>>)
    ELSE Result(EmptyContext, rows, plans, "cancelled", None, <<>>)

\* CalendarAgent.handle_delete_workout_plans(parsed_intent): the plans and the
\* training events are deleted at once
handle_delete_workout_plans(ctx, rows, plans, up) ==
    Result(ctx, delete_workout_events(rows, up).rows,
           IF up THEN {} ELSE plans,
           IF up THEN "workout_plans_deleted" ELSE "workout_plans_delete_failed",
           None, <<>>)

----------------------------------------------------------------------------
(* the dialogue about a training plan *)

ShenGao == <<"shen", "gao">>            \* 身高
TiZhong == <<"ti", "zhong">>            \* 体重
Sui == <<"sui">>                        \* 岁
Nan == <<"nan">>                        \* 男
Nv == <<"nv">>                          \* 女
ZengJi == <<"zeng", "ji_muscle">>       \* 增肌
JiRou == <<"ji_muscle", "rou">>         \* 肌肉
JianZhi == <<"jian_less", "zhi_fat">>   \* 减脂
SuXing == <<"su", "xing">>              \* 塑形
LiLiang == <<"li", "liang">>            \* 力量
Wu == <<"wu_none">>                     \* 无
QuanShen == <<"quan", "shen">>          \* 全身
Xiong == <<"xiong">>                    \* 胸
XiongJi == <<"xiong", "ji_muscle">>     \* 胸肌
Bei == <<"bei">>                        \* 背
Tui == <<"tui">>                        \* 腿
Fu == <<"fu">>                          \* 腹
NiHao == <<"ni", "hao_good">>           \* 你好

\* [,，]
IsComma(c) == c \in {",", "comma_wide"}

\* the positions at which a run of digits starts
RunStarts(text) ==
    { i \in 1..Len(text) : IsDigit(text[i]) /\ ~IsDigit(CharAt(text, i - 1)) }

\* re.findall(r'\d+', text), as numbers: the runs of digits from left to right
\* (the texts have no decimal point and no run of more than three digits)
FindNumbers(text) ==
    [n \in 1..Cardinality(RunStarts(text)) |->
        LET i == CHOOSE s \in RunStarts(text) :
                    Cardinality({ t \in RunStarts(text) : t < s }) = n - 1
        IN  IntOf(SubSeq(text, i, i + DigitRunAt(text, i) - 1))]

\* the number written by the run of digits that starts at position j
NumberAt(text, j) == IntOf(SubSeq(text, j, j + DigitRunAt(text, j) - 1))

\* 100 <= height <= 250 and 30 <= weight <= 200
HeightWeightValid(height, weight) ==
    100 <= height /\ height <= 250 /\ 30 <= weight /\ weight <= 200

\* 身高\s*(\d+)\s*[,，]?\s*体重\s*(\d+) tried at position i (the pattern without
\* the comma when comma is FALSE): <<height, weight>>, None when it does not
\* match there
LabelledPairAt(text, i, comma) ==
    LET j1 == SkipSpaces(text, i + Len(ShenGao))
        k1 == DigitRunAt(text, j1)
        j2 == SkipSpaces(text, j1 + k1)
        j3 == IF comma /\ IsComma(CharAt(text, j2)) THEN SkipSpaces(text, j2 + 1) ELSE j2
        j4 == SkipSpaces(text, j3 + Len(TiZhong))
        k2 == DigitRunAt(text, j4)
    IN  IF StartsWith(text, i, ShenGao) /\ k1 > 0 /\ StartsWith(text, j3, TiZhong) /\ k2 > 0
        THEN <<NumberAt(text, j1), NumberAt(text, j4)>>
        ELSE None

\* (\d+)\s*[,，]?\s*(\d+) tried at position i: two numbers with blanks or a
\* comma between them, or else one run of digits split before its last digit
BarePairAt(text, i) ==
    LET k1 == DigitRunAt(text, i)
        j2 == SkipSpaces(text, i + k1)
        j3 == IF IsComma(CharAt(text, j2)) THEN SkipSpaces(text, j2 + 1) ELSE j2
    IN  IF k1 = 0 THEN None
        ELSE IF DigitRunAt(text, j3) > 0
        THEN <<NumberAt(text, i), NumberAt(text, j3)>>
        ELSE IF k1 >= 2
        THEN <<IntOf(SubSeq(text, i, i + k1 - 2)), DigitValue(text[i + k1 - 1])>>
        ELSE None

\* 高\s*(\d+)\s*重\s*(\d+) tried at position i
ShortPairAt(text, i) ==
    LET j1 == SkipSpaces(text, i + 1)
        k1 == DigitRunAt(text, j1)
        j2 == SkipSpaces(text, j1 + k1)
        j3 == SkipSpaces(text, j2 + 1)
    IN  IF CharAt(text, i) = "gao" /\ k1 > 0 /\ CharAt(text, j2) = "zhong"
           /\ DigitRunAt(text, j3) > 0
        THEN <<NumberAt(text, j1), NumberAt(text, j3)>>
        ELSE None

\* _extract_height_weight(text): the four patterns in their order, the first
\* whose leftmost match is a valid pair gives it; then the first two numbers
\* of the text; None for (None, None)
ExtractHeightWeight(text) ==
    LET first(Try(_, _)) ==
            LET hits == { i \in 1..Len(text) : Try(text, i) # None }
            IN  IF hits = {} THEN None ELSE Try(text, Leftmost(hits))
        with_comma(t, i) == LabelledPairAt(t, i, TRUE)
        without_comma(t, i) == LabelledPairAt(t, i, FALSE)
        valid(pair) == pair # None /\ HeightWeightValid(pair[1], pair[2])
        pick(labelled, unseparated, bare, short, numbers) ==
            IF valid(labelled) THEN labelled
            ELSE IF valid(unseparated) THEN unseparated
            ELSE IF valid(bare) THEN bare
            ELSE IF valid(short) THEN short
            ELSE IF Len(numbers) >= 2 /\ HeightWeightValid(numbers[1], numbers[2])
            THEN <<numbers[1], numbers[2]>>
            ELSE None
    IN  CHOOSE pair \in
            { pick(labelled, unseparated, bare, short, numbers) :
                labelled \in {first(with_comma)}, unseparated \in {first(without_comma)},
                bare \in {first(BarePairAt)}, short \in {first(ShortPairAt)},
                numbers \in {FindNumbers(text)} } : TRUE

\* _extract_age_gender(text): the number before 岁, or else the first number;
\* 男 or 女; the age from 10 to 80; None for (None, None)
ExtractAgeGender(text) ==
    LET gender == IF Contains(text, Nan) THEN <<"male">>
                  ELSE IF Contains(text, Nv) THEN <<"female">>
                  ELSE None
        age_of(hits, numbers) ==
            IF hits # {} THEN <<NumberAt(text, Leftmost(hits))>>
            ELSE IF numbers # <<>> THEN <<numbers[1]>>
            ELSE None
        both(age, sex) ==
            IF age = None \/ sex = None THEN None
            ELSE IF 10 <= age[1] /\ age[1] <= 80 THEN <<age[1], sex[1]>>
            ELSE None
    IN  CHOOSE pair \in
            { both(age_of(hits, numbers), gender) :
                hits \in {{ i \in RunStarts(text) :
                             CharAt(text, SkipSpaces(text, i + DigitRunAt(text, i))) = "sui" }},
                numbers \in {FindNumbers(text)} } : TRUE

\* goal_mapping, the keywords that the characters of the messages can write
GoalKeywords ==
    <<[goal |-> "muscle_gain", keywords |-> {ZengJi, JiRou, <<"1">>, <<"yi">>}],
      [goal |-> "fat_loss", keywords |-> {JianZhi, <<"2">>, <<"er">>}],
      [goal |-> "body_shaping", keywords |-> {SuXing, <<"3">>, <<"san">>}],
      [goal |-> "strength", keywords |-> {LiLiang, <<"4">>, <<"si">>}]>>

\* _extract_fitness_goal(text): the first goal of the mapping one of whose
\* keywords is in the text
ExtractFitnessGoal(text) ==
    LET hits == { g \in 1..Len(GoalKeywords) :
                    \E k \in GoalKeywords[g].keywords : Contains(text, k) }
    IN  IF hits = {} THEN None ELSE <<GoalKeywords[Leftmost(hits)].goal>>

\* body_part_mapping, the keywords that the characters of the messages can write
BodyPartKeywords ==
    <<[part |-> "xiong", keywords |-> {Xiong}],
      [part |-> "bei", keywords |-> {Bei}],
      [part |-> "tui", keywords |-> {Tui}],
      [part |-> "fu", keywords |-> {Fu}]>>

\* _extract_body_part(text): '' after 无 or 全身, the first part of the mapping
\* named in the text, 全身 otherwise
ExtractBodyPart(text) ==
    LET hits == { p \in 1..Len(BodyPartKeywords) :
                    \E k \in BodyPartKeywords[p].keywords : Contains(text, k) }
    IN  IF Contains(text, Wu) \/ Contains(text, QuanShen) THEN ""
        ELSE IF hits = {} THEN "quanshen"
        ELSE BodyPartKeywords[Leftmost(hits)].part

\* _extract_training_frequency(text): the first three numbers of the text
ExtractTrainingFrequency(text) ==
    LET three(numbers) ==
            IF Len(numbers) >= 3 THEN <<numbers[1], numbers[2], numbers[3]>> ELSE None
    IN  CHOOSE found \in { three(numbers) : numbers \in {FindNumbers(text)} } : TRUE

\* self.conversation_context['user_profile'] = {}
EmptyProfile ==
    [height |-> None, weight |-> None, age |-> None, gender |-> None,
     fitness_goal |-> None, target_body_part |-> None, sessions_per_week |-> None,
     session_duration |-> None, plan_duration |-> None]

\* uuid4 ids of the training plans
PlanIds == <<"w1", "w2">>

\* the ids of plans in use: those of the table and that of the pending plan
UsedPlanIds(ctx, plans) ==
    plans \cup { ctx.pending_workout_plan[i].id : i \in 1..Len(ctx.pending_workout_plan) }

FreshPlanId(used) ==
    PlanIds[Leftmost({ i \in 1..Len(PlanIds) : PlanIds[i] \notin used })]

\* _generate_and_confirm_workout_plan(): the plan starts tomorrow
GenerateAndConfirmWorkoutPlan(ctx, rows, plans, now) ==
    LET user_profile_data == ctx.user_profile[1]
        workout_plan == [id |-> FreshPlanId(UsedPlanIds(ctx, plans)),
                         plan_duration |-> user_profile_data.plan_duration[1],
                         sessions_per_week |-> user_profile_data.sessions_per_week[1],
                         session_duration |-> user_profile_data.session_duration[1],
                         start_date |-> now + MinutesPerDay]
    IN  IF \/ user_profile_data.height = None \/ user_profile_data.weight = None
           \/ user_profile_data.age = None \/ user_profile_data.gender = None
           \/ user_profile_data.fitness_goal = None
        THEN Raise(ctx, rows, plans)
        ELSE Result([ctx EXCEPT !.pending_workout_plan = <<workout_plan>>,
                                !.workout_plan_stage = <<"confirmation">>],
                    rows, plans, "confirm_workout_plan", None, <<>>)

\* _continue_workout_plan_conversation(parsed_intent)
ContinueWorkoutPlanConversation(ctx, rows, plans, original_text, now) ==
    LET stage == ctx.workout_plan_stage[1]
        user_profile == ctx.user_profile[1]
        advance(profile, next) ==
            [ctx EXCEPT !.user_profile = <<profile>>, !.workout_plan_stage = <<next>>]
        height_weight(pair) ==
            IF pair # None
            THEN Result(advance([user_profile EXCEPT !.height = <<pair[1]>>,
                                                     !.weight = <<pair[2]>>],
                                "age_gender"),
                        rows, plans, "ask_age_gender", None, <<>>)
            ELSE Result(ctx, rows, plans, "bad_height_weight", None, <<>>)
        age_gender(pair) ==
            IF pair # None
            THEN Result(advance([user_profile EXCEPT !.age = <<pair[1]>>,
                                                     !.gender = <<pair[2]>>],
                                "goal"),
                        rows, plans, "ask_goal", None, <<>>)
            ELSE Result(ctx, rows, plans, "bad_age_gender", None, <<>>)
        goal(found) ==
            IF found # None
            THEN Result(advance([user_profile EXCEPT !.fitness_goal = found], "body_part"),
                        rows, plans, "ask_body_part", None, <<>>)
            ELSE Result(ctx, rows, plans, "bad_goal", None, <<>>)
        body_part(part) ==
            Result(advance([user_profile EXCEPT !.target_body_part = <<part>>], "frequency"),
                   rows, plans, "ask_frequency", None, <<>>)
        planned(sessions, duration, weeks) ==
            [ctx EXCEPT !.user_profile =
                <<[user_profile EXCEPT !.sessions_per_week = <<sessions>>,
                                       !.session_duration = <<duration>>,
                                       !.plan_duration = <<weeks>>]>>]
        ranges(sessions, duration, weeks) ==
            IF sessions < 1 \/ sessions > 7
            THEN Result(ctx, rows, plans, "bad_sessions", None, <<>>)
            ELSE IF duration < 15 \/ duration > 180
            THEN Result(ctx, rows, plans, "bad_duration", None, <<>>)
            ELSE IF weeks < 1 \/ weeks > 52
            THEN Result(ctx, rows, plans, "bad_weeks", None, <<>>)
            ELSE GenerateAndConfirmWorkoutPlan(planned(sessions, duration, weeks),
                                               rows, plans, now)
        frequency(found) ==
            IF found # None /\ found[1] # 0 /\ found[2] # 0 /\ found[3] # 0
            THEN ranges(found[1], found[2], found[3])
            ELSE Result(ctx, rows, plans, "bad_frequency", None, <<>>)
        text == Strip(original_text)
    IN  IF ctx.workout_plan_stage = None \/ ctx.user_profile = None
        THEN Raise(ctx, rows, plans)
        ELSE IF stage = "height_weight"
        THEN CHOOSE reply \in { height_weight(pair) : pair \in {ExtractHeightWeight(text)} } : TRUE
        ELSE IF stage = "age_gender"
        THEN CHOOSE reply \in { age_gender(pair) : pair \in {ExtractAgeGender(text)} } : TRUE
        ELSE IF stage = "goal"
        THEN CHOOSE reply \in { goal(found) : found \in {ExtractFitnessGoal(text)} } : TRUE
        ELSE IF stage = "body_part"
        THEN CHOOSE reply \in { body_part(part) : part \in {ExtractBodyPart(text)} } : TRUE
        ELSE IF stage = "frequency"
        THEN CHOOSE reply \in
                 { frequency(found) : found \in {ExtractTrainingFrequency(text)} } : TRUE
        ELSE Result(ctx, rows, plans, "workout_flow_error", None, <<>>)

\* _is_in_workout_plan_conversation()
IsInWorkoutPlanConversation(ctx) ==
    /\ ctx.workout_plan_stage # None
    /\ ctx.workout_plan_stage[1] \notin {"completed", "confirmation"}

\* CalendarAgent.handle_create_workout_plan(parsed_intent)
handle_create_workout_plan(ctx, rows, plans, parsed_intent, now) ==
    IF IsInWorkoutPlanConversation(ctx)
    THEN ContinueWorkoutPlanConversation(ctx, rows, plans, parsed_intent.original_text, now)
    ELSE Result([ctx EXCEPT !.workout_plan_stage = <<"height_weight">>,
                            !.user_profile = <<EmptyProfile>>,
                            !.workout_plan_data = <<"empty">>],
                rows, plans, "ask_height_weight", None, <<>>)

----------------------------------------------------------------------------
(* LLMParser.parse and CalendarAgent.process_input *)

Dui == <<"dui">>                        \* 对
TongYi == <<"tong", "yi_mind">>         \* 同意
JieShou == <<"jie", "shou">>            \* 接受
TianJia == <<"tian_add", "jia">>        \* 添加
JuJue == <<"ju", "jue">>                \* 拒绝
HuanYiGe == <<"huan", "yi", "ge">>      \* 换一个
XiaYiGe == <<"xia", "yi", "ge">>        \* 下一个
ZaiLaiYiGe == <<"zai", "lai", "yi", "ge">>                  \* 再来一个
ChongXinTuiJian == <<"chong", "xin", "tui_push", "jian_rec">>  \* 重新推荐

\* confirm_short, cancel_short and next_short of LLMParser.parse
confirm_short ==
    {QueRen, QueDing, ShiDe, HaoDe, Dui, TongYi, Shi, JieShou, <<"o", "k">>,
     <<"y", "e", "s">>, TianJia}

cancel_short == {QuXiao, BuYao, BuShi, Fou, JuJue, Bu, <<"n", "o">>}

next_short == {HuanYiGe, ChongXinTuiJian, XiaYiGe, ZaiLaiYiGe}

\* the words process_input takes as the answer to a proposed training plan
DirectConfirmWords == {QueRen, QueDing, ShiDe, HaoDe, Shi}

DirectCancelWords == {QuXiao, BuYao, BuShi, Fou, Bu}

\* the confidence below which process_input does not act, in hundredths
MinConfidence == 30

\* the entities of an intent: the title, the number chosen and what
\* _extract_day_time_from_text found
Entities(title, selection_index, day_time) ==
    [title |-> title, selection_index |-> selection_index, day_time |-> day_time]

\* LLMParser.parse(text) when the LLM answered (message.llm is its answer:
\* intent_type, title and confidence): numbers and short words are mapped by
\* rule, whatever the LLM said; intent is None when an exception left parse
Parse(message, now) ==
    LET text_strip == Strip(message.text)
        ruled(intent_type, selection_index, confidence) ==
            [raised |-> FALSE,
             intent |-> <<[intent_type |-> intent_type,
                           entities |-> Entities(<<>>, selection_index, None),
                           confidence |-> confidence,
                           original_text |-> message.text]>>]
    IN  IF IsDigitText(text_strip)
        THEN ruled("delete_event", <<IntOf(text_strip)>>, 99)
        ELSE IF Lower(text_strip) \in {SuoYou, QuanBu, <<"a", "l", "l">>}
        THEN ruled("delete_event", None, 95)
        ELSE IF Len(text_strip) <= 6 /\ text_strip \in confirm_short
        THEN ruled("confirm_action", None, 95)
        ELSE IF Len(text_strip) <= 6 /\ text_strip \in cancel_short
        THEN ruled("cancel_action", None, 95)
        ELSE IF Len(text_strip) <= 6 /\ \E k \in next_short : Contains(text_strip, k)
        THEN ruled("confirm_action", None, 90)
        ELSE CHOOSE parsed \in
                 { IF day_time.raised
                   THEN [raised |-> TRUE, intent |-> None]
                   ELSE [raised |-> FALSE,
                         intent |-> <<[intent_type |-> message.llm.intent_type,
                                       entities |-> Entities(message.llm.title, None,
                                                             day_time.entity),
                                       confidence |-> message.llm.confidence,
                                       original_text |-> message.text]>>] :
                     day_time \in {ExtractDayTimeFromText(message.text, now)} } : TRUE

\* handle_query_events and handle_list_events: the events of the day or of the
\* days asked for are listed (the messages name no part of the day, so every
\* event found is shown); list_events raises when the database cannot be read
handle_query_events(ctx, rows, plans, parsed_intent, now, up) ==
    LET original_text == Lower(parsed_intent.original_text)
        today == At(DayOf(now), 0, 0)
        start_date == IF Contains(original_text, JinTian) THEN today
                      ELSE IF Contains(original_text, MingTian) THEN today + MinutesPerDay
                      ELSE today
        end_date == IF Contains(original_text, JinTian) \/ Contains(original_text, MingTian)
                    THEN start_date + MinutesPerDay - 1
                    ELSE start_date + DaysPerWeek * MinutesPerDay
    IN  IF ~up THEN Raise(ctx, rows, plans)
        ELSE Result(ctx, rows, plans, "events_found", None,
                    ListTitledEvents(rows, start_date, end_date))

\* CalendarAgent.execute_intent(parsed_intent); handled names the handler
execute_intent(ctx, rows, plans, parsed_intent, now, up) ==
    LET intent_type == parsed_intent.intent_type
    IN  IF intent_type = "add_event"
        THEN handle_add_event(ctx, rows, plans, parsed_intent, now)
        ELSE IF intent_type = "modify_event"
        THEN handle_modify_event(ctx, rows, plans, parsed_intent, now, up)
        ELSE IF intent_type = "delete_event"
        THEN handle_delete_event(ctx, rows, plans, parsed_intent, now, up)
        ELSE IF intent_type \in {"query_events", "list_events"}
        THEN handle_query_events(ctx, rows, plans, parsed_intent, now, up)
        ELSE IF intent_type = "confirm_action"
        THEN handle_confirm_action(ctx, rows, plans, parsed_intent, now, up)
        ELSE IF intent_type = "cancel_action"
        THEN handle_cancel_action(ctx, rows, plans)
        ELSE IF intent_type = "help"
        THEN Result(ctx, rows, plans, "help", None, <<>>)
        ELSE IF intent_type = "create_workout_plan"
        THEN handle_create_workout_plan(ctx, rows, plans, parsed_intent, now)
        ELSE IF intent_type = "delete_workout_plans"
        THEN handle_delete_workout_plans(ctx, rows, plans, up)
        ELSE Result(ctx, rows, plans, "cannot_handle", None, <<>>)

\* self.conversation_timeout = 30 * 60, in seconds
ConversationTimeout == 30 * 60

SecondsPerMinute == 60

\* a cleanup that clears the context already when exactly the timeout has passed
CleanupExpiredAtTimeout(ctx, last, now) ==
    IF last # None /\ now - last[1] >= ConversationTimeout THEN EmptyContext ELSE ctx

\* _cleanup_expired_conversation(): the context is cleared when more than the
\* timeout has passed since the last interaction
CleanupExpiredConversation(ctx, last, now) ==
    IF last # None /\ now - last[1] > ConversationTimeout THEN EmptyContext ELSE ctx

\* the result of a handler, with the intent that was handled
Handled(result, intent_type) == [result EXCEPT !.handled = intent_type]

\* CalendarAgent.process_input(user_input) after the cleanup, with now in
\* minutes; an exception is caught and answered with an error message
DispatchInput(ctx, rows, plans, message, now, up) ==
    LET text == Strip(message.text)
        direct(intent_type) == [intent_type |-> intent_type,
                                entities |-> Entities(<<>>, None, None),
                                confidence |-> 100,
                                original_text |-> message.text]
    IN  IF ctx.pending_workout_plan # None /\ text \in DirectConfirmWords
        THEN Handled(handle_confirm_action(ctx, rows, plans, direct("confirm_action"),
                                           now, up),
                     "confirm_action")
        ELSE IF ctx.pending_workout_plan # None /\ text \in DirectCancelWords
        THEN Handled(handle_cancel_action(ctx, rows, plans), "cancel_action")
        ELSE IF IsInWorkoutPlanConversation(ctx)
        THEN Handled(ContinueWorkoutPlanConversation(ctx, rows, plans, message.text, now),
                     "create_workout_plan")
        ELSE CHOOSE result \in
                 { IF parsed.raised THEN Raise(ctx, rows, plans)
                   ELSE IF parsed.intent[1].confidence < MinConfidence
                   THEN Result(ctx, rows, plans, "not_understood", None, <<>>)
                   ELSE Handled(execute_intent(ctx, rows, plans, parsed.intent[1], now, up),
                                parsed.intent[1].intent_type) :
                     parsed \in {Parse(message, now)} } : TRUE

----------------------------------------------------------------------------
(* the dialogue: the messages of the clients, one process_input at a time *)

\* what the LLM answers for a text: the intent, the title and the confidence
\* (in hundredths)
Llm(intent_type, title, confidence) ==
    [intent_type |-> intent_type, title |-> title, confidence |-> confidence]

Message(text, llm) == [text |-> text, llm |-> llm]

Three == <<"3">>
Four == <<"4">>
Five == <<"5">>

\* the messages about events
EventMessages ==
    { Message(MingTian \o XiaWu \o Three \o Dian \o KaiHui,          \* 明天下午3点开会
              Llm("add_event", KaiHui, 95)),
      Message(MingTian \o XiaWu \o Five \o Dian \o KaiHui,           \* 明天下午5点开会
              Llm("add_event", KaiHui, 95)),
      Message(MingTian \o KaiHui,                                   \* 明天开会
              Llm("add_event", KaiHui, 90)),
      Message(XiuGai \o KaiHui \o Dao \o MingTian \o XiaWu \o Four \o Dian,
              Llm("modify_event", KaiHui, 90)),                     \* 修改开会到明天下午4点
      Message(ShanChu \o MingTian \o XiaWu \o Three \o Dian \o De \o HuiYi,
              Llm("delete_event", <<>>, 90)),                       \* 删除明天下午3点的会议
      Message(ShanChu \o MingTian \o De \o HuiYi,                   \* 删除明天的会议
              Llm("delete_event", <<>>, 90)),
      Message(ShanChu \o MingTian \o SuoYou \o HuiYi,               \* 删除明天所有会议
              Llm("delete_event", <<>>, 90)),
      Message(MingTian \o <<"you_have", "shen_what", "me", "an", "pai">>,
              Llm("query_events", <<>>, 90)),                       \* 明天有什么安排
      Message(<<"1">>, Llm("unknown", <<>>, 0)),
      Message(<<"2">>, Llm("unknown", <<>>, 0)),
      Message(NiHao, Llm("unknown", <<>>, 20)) }                    \* 你好

\* the answers: 确认 and 取消
AnswerMessages ==
    { Message(QueRen, Llm("confirm_action", <<>>, 95)),
      Message(QuXiao, Llm("cancel_action", <<>>, 95)) }

ZhiDingXunLianJiHua == <<"zhi_make", "ding_set">> \o XunLian \o <<"ji_plan", "hua_plan">>

\* the messages of the training dialogue
WorkoutMessages ==
    { Message(ZhiDingXunLianJiHua,                                  \* 制定训练计划
              Llm("create_workout_plan", <<>>, 95)),
      Message(ShenGao \o <<"1", "7", "5", "comma_wide">> \o TiZhong \o <<"7", "0">>,
              Llm("unknown", <<>>, 50)),                            \* 身高175，体重70
      Message(<<"2", "5">> \o Sui \o <<"comma_wide">> \o Nan,
              Llm("unknown", <<>>, 50)),                            \* 25岁，男
      Message(ZengJi, Llm("unknown", <<>>, 50)),                    \* 增肌
      Message(XiongJi, Llm("unknown", <<>>, 50)),                   \* 胸肌
      Message(<<"1", ",", " ", "6", "0", ",", " ", "1">>,
              Llm("unknown", <<>>, 50)),                            \* 1, 60, 1
      Message(<<"9", ",", " ", "6", "0", ",", " ", "8">>,
              Llm("unknown", <<>>, 50)),                            \* 9, 60, 8
      Message(NiHao, Llm("help", <<>>, 90)),                        \* 你好
      Message(ShanChu \o XunLian \o <<"ji_plan", "hua_plan">>,      \* 删除训练计划
              Llm("delete_workout_plans", <<>>, 95)) }

\* the clients of the server: all of them talk to the one agent of main.py
Clients == {"a", "b"}

\* the first value of datetime.now(), in seconds
DialogueStart == At(Ordinal(2024, 1, 15), 9, 0) * SecondsPerMinute

\* the largest number of messages after the first one, in the dialogue about
\* events and in the training dialogue
MaxDialogueGaps == 3
MaxWorkoutGaps == 9

\* the seconds between two messages: exactly the timeout, or a second more
TimeoutGaps == {ConversationTimeout, ConversationTimeout + 1}

\* the values of datetime.now() at which the next message can arrive: the
\* start for the first message, later ones a gap after the message before
Arrivals(gaps, end) ==
    IF last_interaction_time = None THEN {DialogueStart}
    ELSE { now \in { last_interaction_time[1] + gap : gap \in gaps } : now <= end }

\* the proposals that await a confirm in a context: an event to add, an event
\* to modify, an event to delete, the events of a day to delete
PendingProposals(ctx) ==
    { key \in {"pending_event", "event_to_modify", "event_to_delete", "events_to_delete"} :
        ctx[key] # None }

\* process_input(user_input) for a message of a client, datetime.now() read
\* as now (in seconds) and the database reachable or not (up); call.pending
\* names the proposals the context held when the message arrived
ProcessInput(client, message, now, up) ==
    \E ctx \in {CleanupExpiredConversation(conversation_context,
                                           last_interaction_time, now)} :
       /\ HasFreshIds(UsedIds(ctx, events), 1)
       /\ Cardinality(UsedPlanIds(ctx, workout_plans)) < Len(PlanIds)
       /\ \E result \in {DispatchInput(ctx, events, workout_plans, message,
                                       now \div SecondsPerMinute, up)} :
            /\ op' = "process_input"
            /\ call' = [client |-> client, text |-> message.text,
                        handled |-> result.handled,
                        pending |-> PendingProposals(conversation_context)]
            /\ ret' = [reply |-> result.reply, event |-> result.event,
                       listed |-> result.listed]
            /\ outcome' = "returned"
            /\ events' = result.rows
            /\ workout_plans' = result.plans
            /\ conversation_context' = result.context
            /\ last_interaction_time' = <<now>>

\* a message about events, from any client
EventInput ==
    \E client \in Clients, message \in EventMessages, up \in BOOLEAN :
    \E now \in Arrivals(TimeoutGaps,
                        DialogueStart + MaxDialogueGaps * (ConversationTimeout + 1)) :
        ProcessInput(client, message, now, up)

\* 确认 or 取消, from any client
AnswerInput ==
    \E client \in Clients, message \in AnswerMessages, up \in BOOLEAN :
    \E now \in Arrivals(TimeoutGaps,
                        DialogueStart + MaxDialogueGaps * (ConversationTimeout + 1)) :
        ProcessInput(client, message, now, up)

NextDialogue ==
    \/ EventInput
    \/ AnswerInput

SpecDialogue == Init /\ [][NextDialogue]_vars

\* the add request that comes before the training dialogue
AddBeforeTraining ==
    Message(MingTian \o XiaWu \o Three \o Dian \o KaiHui,           \* 明天下午3点开会
            Llm("add_event", KaiHui, 95))

\* a message of the training dialogue, a minute after the one before
WorkoutInput ==
    \E message \in WorkoutMessages \cup {AddBeforeTraining}, up \in BOOLEAN :
    \E now \in Arrivals({SecondsPerMinute},
                        DialogueStart + MaxWorkoutGaps * SecondsPerMinute) :
        ProcessInput("a", message, now, up)

\* 确认 or 取消 in the training dialogue
WorkoutAnswer ==
    \E message \in AnswerMessages, up \in BOOLEAN :
    \E now \in Arrivals({SecondsPerMinute},
                        DialogueStart + MaxWorkoutGaps * SecondsPerMinute) :
        ProcessInput("a", message, now, up)

NextWorkout ==
    \/ WorkoutInput
    \/ WorkoutAnswer

SpecWorkout == Init /\ [][NextWorkout]_vars

----------------------------------------------------------------------------
(* the properties *)

\* the events in the store, as list_events would build them
StoredEvents == { FromRow(r) : r \in events }

\* the half-open windows [s1, e1) and [s2, e2) have an instant in common
ShareInstant(s1, e1, s2, e2) ==
    \E t \in s1..(e1 - 1) : s2 <= t /\ t < e2

\* the elements of a sequence
Range(seq) == { seq[i] : i \in 1..Len(seq) }

\* the duration of the candidate of the last suggest_alternative_times call
CallDuration == call.new_event.end_time - call.new_event.start_time

\* the candidates that call generated and found available
CallGenerated ==
    { t \in { call.base_time + CandidateOffsets[i] : i \in 1..Len(CandidateOffsets) } :
        IsAvailable(events, call.up, t, CallDuration) }

\* the window of an event is not empty: it starts before it ends
ValidWindow(event) == event.start_time < event.end_time

\* C1: _events_overlap reports a conflict exactly when a.start < b.end and
\* b.start < a.end: windows that only touch at a boundary are no conflict, and
\* windows that share an instant of their half-open intervals are one.
C1_OverlapIsHalfOpen ==
    op = "events_overlap" =>
        LET a == call.e1
            b == call.e2
        IN  /\ ret = (a.start_time < b.end_time /\ b.start_time < a.end_time)
            /\ (a.end_time = b.start_time \/ b.end_time = a.start_time) => ~ret
            /\ ShareInstant(a.start_time, a.end_time, b.start_time, b.end_time) => ret
            /\ (a.start_time < a.end_time /\ b.start_time < b.end_time /\ ret)
                   => ShareInstant(a.start_time, a.end_time, b.start_time, b.end_time)

\* a stored event that starts when the candidate ends was compared with it
C1_Witness ==
    /\ op = "events_overlap"
    /\ call.e1.start_time = call.e2.end_time
    /\ ret = FALSE

\* C2: find_conflicting_events returns exactly the stored events whose window
\* overlaps the candidate's (half-open test) and whose id is not the candidate's
\* (stated for a store that answers and a candidate that starts before it ends).
C2_FindReturnsEveryOverlap ==
    (op = "find_conflicting_events" /\ call.up /\ ValidWindow(call.new_event)) =>
        ret = { e \in StoredEvents :
                  /\ e.id # call.new_event.id
                  /\ e.start_time < call.new_event.end_time
                  /\ call.new_event.start_time < e.end_time }

\* C3: no stored event overlaps the window [t, t + d) of a suggested time t
\* (stated for a store that answers and a candidate that starts before it ends,
\* and leaving aside the candidate's own row).
C3_SuggestionsAreFree ==
    (op = "suggest_alternative_times" /\ call.up /\ ValidWindow(call.new_event)) =>
        \A t \in Range(ret) : \A e \in StoredEvents :
            e.id # call.new_event.id =>
                ~(e.start_time < t + CallDuration /\ t < e.end_time)

\* C4: a suggested time t is not before 06:00 of its day, and t + d is not after
\* 23:00 of that day (for a candidate that starts before it ends).
C4_SuggestionsInDailyWindow ==
    (op = "suggest_alternative_times" /\ call.up /\ ValidWindow(call.new_event)) =>
        \A t \in Range(ret) :
            /\ t >= At(DayOf(t), 6, 0)
            /\ t + CallDuration <= At(DayOf(t), 23, 0)

\* C5: every suggested time is later than now, also for a base_time in the past.
C5_SuggestionsAfterNow ==
    op = "suggest_alternative_times" =>
        \A i \in 1..Len(ret) : ret[i] > call.now

\* base_time lies in the past and an available candidate at the very instant
\* now was generated, while something is still suggested
C5_Witness ==
    /\ op = "suggest_alternative_times"
    /\ call.up
    /\ call.base_time < call.now
    /\ call.now \in CallGenerated
    /\ ret # <<>>

\* the place of a suggested time in the generation order
GenerationIndex(t) ==
    CHOOSE i \in 1..Len(CandidateOffsets) : call.base_time + CandidateOffsets[i] = t

\* C6: the suggestions are sorted by ascending distance from base_time, and two
\* at the same distance keep their generation order.
C6_SortedByDistanceStable ==
    op = "suggest_alternative_times" =>
        \A i, j \in 1..Len(ret) :
            i < j =>
                /\ Distance(ret[i], call.base_time) <= Distance(ret[j], call.base_time)
                /\ Distance(ret[i], call.base_time) = Distance(ret[j], call.base_time)
                       => GenerationIndex(ret[i]) < GenerationIndex(ret[j])

\* two suggestions at the same distance, and one the sort moved ahead of an
\* earlier generated one
C6_Witness ==
    /\ op = "suggest_alternative_times"
    /\ call.up
    /\ \E i, j \in 1..Len(ret) :
         i < j /\ Distance(ret[i], call.base_time) = Distance(ret[j], call.base_time)
    /\ \E i, j \in 1..Len(ret) :
         i < j /\ GenerationIndex(ret[i]) > GenerationIndex(ret[j])

\* the fourteen offsets: 30 and 60 minutes, one day, one day with one hour,
\* two and three days, each before and after
FourteenOffsets ==
    { -30, 30, -60, 60, -1440, 1440, -1500, -1380, 1380, 1500,
      -2880, 2880, -4320, 4320 }

\* C7: every suggested time is base_time plus one of the fourteen offsets,
\* never base_time itself, and none is suggested twice.
C7_SuggestionsAreTheOffsets ==
    op = "suggest_alternative_times" =>
        /\ Cardinality(FourteenOffsets) = 14
        /\ \A i \in 1..Len(ret) :
             /\ ret[i] - call.base_time \in FourteenOffsets
             /\ ret[i] # call.base_time
        /\ \A i, j \in 1..Len(ret) : i # j => ret[i] # ret[j]

\* suggestions of the same day and of other days were returned, base_time free
C7_Witness ==
    /\ op = "suggest_alternative_times"
    /\ call.up
    /\ IsAvailable(events, call.up, call.base_time, CallDuration)
    /\ \E t \in Range(ret) : Distance(t, call.base_time) < MinutesPerDay
    /\ \E t \in Range(ret) : Distance(t, call.base_time) > MinutesPerDay

\* C8: at most 8 times are suggested, the nearest ones: an available candidate
\* later than now is left out only when 8 suggested ones are at least as near.
C8_AtMostEightNearest ==
    op = "suggest_alternative_times" =>
        /\ Len(ret) <= 8
        /\ \A t \in CallGenerated :
             (t > call.now /\ t \notin Range(ret)) =>
                 /\ Len(ret) = 8
                 /\ \A i \in 1..Len(ret) :
                      Distance(ret[i], call.base_time) <= Distance(t, call.base_time)

\* more than 8 candidates were available and later than now: some are left out
C8_Witness ==
    /\ op = "suggest_alternative_times"
    /\ call.up
    /\ Len(ret) = 8
    /\ \E t \in CallGenerated : t > call.now /\ t \notin Range(ret)

\* the whole hours 06:00, 07:00, ..., 21:00 of the day of a date
WholeHours(date) == [i \in 1..16 |-> At(DayOf(date), 5 + i, 0)]

\* C9: get_available_slots returns, in ascending order, exactly the whole hours
\* 06:00 to 21:00 of the date at which a probe of the duration has no conflicts.
C9_SlotsAreTheFreeWholeHours ==
    (op = "get_available_slots" /\ call.up) =>
        ret = SelectSeq(WholeHours(call.date),
                        LAMBDA t : FindConflictingEvents(events, call.up,
                                       CalendarEvent(TempCheckId, t, t + call.duration)) = {})

\* C10: when the store query fails, find_conflicting_events and
\* suggest_alternative_times report a failure to their caller.
C10_StoreFailureIsReported ==
    (op \in {"find_conflicting_events", "suggest_alternative_times"} /\ ~call.up) =>
        outcome = "raised"

\* the resolver's operations that only read the store
ReadOnlyOps == {"find_conflicting_events", "suggest_alternative_times", "get_available_slots"}

\* C11: find_conflicting_events and suggest_alternative_times reject a candidate
\* whose start is at or after its end, and issue no list_events call for it
\* (stated for a store that would answer).
C11_InvalidWindowRejectedUnqueried ==
    (op \in {"find_conflicting_events", "suggest_alternative_times"}
        /\ call.up /\ ~ValidWindow(call.new_event)) =>
            /\ outcome = "raised"
            /\ call.queries = 0

KnownPeriods == { ShangWu, XiaWu, WanShang }

\* the hour an utterance states can be read: digits, or a Chinese numeral the
\* map holds
HourReadable(u) == u.numeral = "arabic" \/ u.h <= 23

\* [qualifier] N点 [半] with the qualifier, if any, right in front of the hour
StatesClockTime(u) == u.kind = "dian" /\ ~u.gap /\ HourReadable(u)

\* the promotion table of the specification, for a period and a stated hour h
PromotionTable(period, h) ==
    IF period \in {XiaWu, WanShang} /\ h < 12 THEN h + 12
    ELSE IF period \in {XiaWu, WanShang} /\ h = 12 THEN 12
    ELSE IF period = ShangWu /\ h = 12 THEN 0
    ELSE IF period = None /\ h < 8 THEN h + 12
    ELSE h

MorningWords == { ShangWu, ZaoShang, ZaoChen }

\* C14: for a text with a morning qualifier (上午, 早上 or 早晨) and a stated hour
\* h from 1 to 11, the extracted start is at hour h; the hour is not shifted by 12.
C14_MorningHourIsKept ==
    (op = "extract_datetime_from_text"
        /\ StatesClockTime(call.utterance)
        /\ call.utterance.period \in MorningWords
        /\ call.utterance.h \in 1..11) =>
            /\ ret # None
            /\ Hour(ret[1]) = call.utterance.h

\* a clock time the extractor's table turns into an hour of the day
ClockTimeValid(u) ==
    /\ StatesClockTime(u)
    /\ u.period \in KnownPeriods \cup {None}
    /\ PromotionTable(u.period, u.h) <= 23

\* the calendar date after a date
NextDate(dt) ==
    IF dt.day < DaysInMonth(dt.year, dt.month) THEN [dt EXCEPT !.day = dt.day + 1]
    ELSE IF dt.month < 12 THEN [year |-> dt.year, month |-> dt.month + 1, day |-> 1]
    ELSE [year |-> dt.year + 1, month |-> 1, day |-> 1]

C16_NoDayMeansToday ==
    (op = "extract_datetime_from_text"
        /\ call.utterance.day = "none"
        /\ StatesClockTime(call.utterance)) =>
            /\ ClockTimeValid(call.utterance) => (outcome = "returned" /\ ret # None)
            /\ (outcome = "returned" /\ ret # None) =>
                  /\ DateOf(DayOf(ret[1])) = DateOf(DayOf(call.now))
                  /\ ret[2] = ret[1] + MinutesPerHour
            /\ (call.now = At(Ordinal(2024, 1, 15), 9, 0)
                  /\ call.text = XiaWu \o <<"3", "dian">>) =>
                     ret = << At(Ordinal(2024, 1, 15), 15, 0), At(Ordinal(2024, 1, 15), 16, 0) >>

\* 下午3点 was read at 2024-01-15T09:00
C16_Witness ==
    /\ op = "extract_datetime_from_text"
    /\ call.now = At(Ordinal(2024, 1, 15), 9, 0)
    /\ call.text = XiaWu \o <<"3", "dian">>
    /\ ret # None
    /\ DateOf(DayOf(ret[1])) = [year |-> 2024, month |-> 1, day |-> 15]
    /\ Hour(ret[1]) = 15

\* the first day on or after today that is day d of its month (d from 1 to 31)
NearestDayOfMonth(today, d) ==
    Leftmost({ n \in today..(today + 62) : DateOf(n).day = d })

\* C17: for a text that names a day of the month d (1 to 31) and no month,
\* _extract_day_time_from_text resolves the date to the nearest date on or after
\* today whose day of the month is d: this month if day d has not passed, else
\* the next month that has a day d; the date is never before today.
C17_DayResolvesToNearestOccurrence ==
    (op = "extract_day_time_from_text"
        /\ call.utterance.day = "dom"
        /\ call.utterance.dom \in 1..31) =>
            /\ outcome = "returned"
            /\ ret # None
            /\ ret[1].date =
                   IsoDate(NearestDayOfMonth(DayOf(call.now), call.utterance.dom))

\* C18: for an add request that names a day of the month and a clock time, and
\* neither 今天 nor 明天, the start of the event proposed for confirmation lies
\* on the resolved date of that day of the month.
C18_ProposedStartOnNamedDay ==
    (op = "handle_add_event"
        /\ call.utterance.day = "dom"
        /\ call.utterance.dom \in 1..31
        /\ call.utterance.kind = "dian") =>
            /\ outcome = "returned"
            /\ ret = "confirm"
            /\ conversation_context.pending_event # None
            /\ DayOf(conversation_context.pending_event[1].start_time) =
                   NearestDayOfMonth(DayOf(call.now), call.utterance.dom)

\* C19: a text with a clock time HH:MM yields a start at hour HH and minute MM
\* (in the agent's extractor, and as hour and minute of the parser's entity),
\* and the digits of a day of the month are not taken as the hour: a text that
\* names a day and no time yields no hour.
C19_HourMinuteFormIsPreferred ==
    /\ (op = "extract_datetime_from_text" /\ call.utterance.kind = "hm"
           /\ (call.utterance.day = "dom" => call.utterance.dom \in 1..31)) =>
          /\ outcome = "returned"
          /\ ret # None
          /\ Hour(ret[1]) = call.utterance.h
          /\ ret[1] % MinutesPerHour = call.utterance.m
    /\ (op = "extract_day_time_from_text" /\ outcome = "returned" /\ ret # None
           /\ call.utterance.kind = "hm") =>
          /\ ret[1].hour = <<call.utterance.h>>
          /\ ret[1].minute = <<call.utterance.m>>
    /\ (op = "extract_datetime_from_text"
           /\ call.utterance.day = "dom" /\ call.utterance.kind = "none") =>
          ret = None
    /\ (op = "extract_day_time_from_text" /\ outcome = "returned" /\ ret # None
           /\ call.utterance.day = "dom" /\ call.utterance.kind = "none") =>
          ret[1].hour = None

\* C20: the minute of the extracted start is 30 exactly when a 半 belongs to
\* the clock-time expression (it follows N点 or N时), and 0 otherwise.
C20_MinuteFollowsHalfMarker ==
    (op = "extract_datetime_from_text"
        /\ outcome = "returned" /\ ret # None
        /\ call.utterance.kind = "dian") =>
            ret[1] % MinutesPerHour = (IF call.utterance.half THEN 30 ELSE 0)

\* C21: _extract_datetime_from_text ends in one of two outcomes and no other:
\* it returns the absent result, or it returns a window whose end is exactly
\* one hour after its start and whose start hour lies between 0 and 23; no
\* hour token of the text makes the call end in any other way.
C21_ExtractionEndsAbsentOrOneHourWindow ==
    op = "extract_datetime_from_text" =>
        /\ outcome = "returned"
        /\ \/ ret = None
           \/ /\ ret # None
              /\ ret[2] = ret[1] + MinutesPerHour
              /\ ret[1] < ret[2]
              /\ Hour(ret[1]) \in 0 .. (HoursPerDay - 1)

\* C22: a text with no clock-time pattern gives the absent result even when it
\* names a day (今天开会, 明天开会); the add flow then stores no pending event
\* and asks the user for a time.
C22_NoClockTimeIsAbsentAndTimeAsked ==
    [][(op' = "handle_add_event" /\ call'.utterance.kind = "none") =>
          /\ outcome' = "returned"
          /\ call'.extracted = None
          /\ ret' = "ask_time"
          /\ conversation_context'.pending_event = conversation_context.pending_event]_vars

C22_Witness ==
    /\ op = "handle_add_event"
    /\ call.utterance.kind = "none"
    /\ call.utterance.day = "jintian"
    /\ call.extracted = None
    /\ outcome = "returned"
    /\ ret = "ask_time"
    /\ conversation_context.pending_event = None

\* the seconds between the last two messages
Gap == last_interaction_time'[1] - last_interaction_time[1]

\* the agent has just listed numbered events and asked for a number
AskedForNumber ==
    /\ op = "process_input"
    /\ ret.reply \in {"list_modify", "list_delete"}
    /\ ret.listed # <<>>

\* C23: after the agent has listed numbered events and asked for a number, an
\* input that is a valid number k, processed through process_input, gets the
\* confirmation prompt for the k-th listed event.
C23_NumberSelectsListedEvent ==
    [][(/\ AskedForNumber
        /\ Gap <= ConversationTimeout
        /\ IsDigitText(call'.text)
        /\ IntOf(call'.text) \in 1..Len(ret.listed)) =>
           /\ ret'.reply \in {"confirm_modify", "confirm_delete"}
           /\ ret'.event = <<ret.listed[IntOf(call'.text)]>>]_vars

\* C24: events of the store are added, modified or deleted only while a
\* confirm action is processed: an input handled as any other intent leaves the
\* set of stored events unchanged.
C24_OnlyConfirmChangesEvents ==
    [][(op' = "process_input" /\ call'.handled # "confirm_action") =>
           events' = events]_vars

\* C25: a confirm that arrives right after a cancel leaves the event store
\* unchanged, whichever entries were pending before the cancel.
C25_ConfirmAfterCancelChangesNothing ==
    [][(/\ op = "process_input"
        /\ call.handled = "cancel_action"
        /\ op' = "process_input"
        /\ call'.handled = "confirm_action") =>
           events' = events]_vars

\* C26: at most one user action is pending at any time: a new proposal to add,
\* modify or delete replaces the proposal that still awaits its confirmation.
C26_AtMostOnePendingAction ==
    Cardinality(PendingProposals(conversation_context)) <= 1

\* C27: a proposed action is executed at most once: a confirm that added,
\* modified or deleted the pending event clears its pending entry, and the
\* confirm after it changes nothing in the store; a confirm whose store
\* operation failed keeps the pending entry for a later confirm.
C27_ExecutedOnceAndKeptOnFailure ==
    [][(op' = "process_input" /\ call'.handled = "confirm_action") =>
           /\ ret'.reply = "added" => conversation_context'.pending_event = None
           /\ ret'.reply = "modified" => conversation_context'.event_to_modify = None
           /\ ret'.reply = "deleted" => conversation_context'.event_to_delete = None
           /\ (op = "process_input" /\ ret.reply \in {"added", "modified", "deleted"}) =>
                  events' = events
           /\ ret'.reply = "add_failed" =>
                  /\ conversation_context.pending_event # None
                  /\ conversation_context'.pending_event = conversation_context.pending_event
           /\ ret'.reply = "modify_failed" =>
                  /\ conversation_context.event_to_modify # None
                  /\ conversation_context'.event_to_modify
                         = conversation_context.event_to_modify
           /\ ret'.reply = "delete_failed" =>
                  /\ conversation_context.event_to_delete # None
                  /\ conversation_context'.event_to_delete
                         = conversation_context.event_to_delete]_vars

\* the replies that propose an action and ask for its confirmation
ProposalReplies == {"confirm_add", "confirm_modify", "confirm_delete", "confirm_delete_all"}

\* C28: the conversation context belongs to one client: a confirm or a cancel
\* sent by one client neither executes nor discards the action that was just
\* proposed to the other client.
C28_AnswerOfOtherClientLeavesProposal ==
    [][(/\ op = "process_input"
        /\ ret.reply \in ProposalReplies
        /\ op' = "process_input"
        /\ call'.client # call.client
        /\ call'.handled \in {"confirm_action", "cancel_action"}
        /\ Gap <= ConversationTimeout) =>
           /\ events' = events
           /\ \A key \in PendingProposals(conversation_context) :
                  conversation_context'[key] = conversation_context[key]]_vars

\* the stages of the training dialogue, in their order
StageOrder ==
    <<"height_weight", "age_gender", "goal", "body_part", "frequency",
      "confirmation", "completed">>

\* the stage that may follow a stage: the same one, the next one of the
\* order, the first one when no dialogue is open, none when it is closed
StageFollows(before, after) ==
    \/ after = before
    \/ after = None
    \/ before \in {None, <<"completed">>} /\ after = <<StageOrder[1]>>
    \/ \E i \in 1..(Len(StageOrder) - 1) :
           before = <<StageOrder[i]>> /\ after = <<StageOrder[i + 1]>>

\* the replies to an answer that cannot be read or is out of range
RejectedReplies ==
    {"bad_height_weight", "bad_age_gender", "bad_goal", "bad_sessions",
     "bad_duration", "bad_weeks", "bad_frequency"}

\* C29: the training dialogue advances only in the order height_weight,
\* age_gender, goal, body_part, frequency, confirmation, completed; an answer
\* that is rejected leaves the stage and the profile unchanged; a training
\* plan is pending exactly while the stage is confirmation.
C29_StagesAdvanceInOrder ==
    [][op' = "process_input" =>
           /\ StageFollows(conversation_context.workout_plan_stage,
                           conversation_context'.workout_plan_stage)
           /\ ret'.reply \in RejectedReplies =>
                  /\ conversation_context'.workout_plan_stage
                         = conversation_context.workout_plan_stage
                  /\ conversation_context'.user_profile
                         = conversation_context.user_profile
           /\ conversation_context'.pending_workout_plan # None
                  <=> conversation_context'.workout_plan_stage = <<"confirmation">>]_vars

\* the handlers that read the context and write nothing to it
ContextReaders == {"none", "query_events", "unknown"}

\* C30: when more than 30 minutes have passed since the previous interaction,
\* process_input clears the whole context before it handles the input, so a
\* confirm after such a gap executes nothing that was proposed before it; with
\* a gap of 30 minutes or less the context is kept, and a confirm executes the
\* pending add.
C30_ContextExpiresAfterTimeout ==
    [][(last_interaction_time # None /\ op' = "process_input") =>
           /\ (Gap > ConversationTimeout /\ call'.handled = "confirm_action") =>
                  /\ events' = events
                  /\ ret'.reply = "nothing_pending"
           /\ (Gap > ConversationTimeout
                  /\ call'.handled \in ContextReaders \cup {"confirm_action", "cancel_action"}) =>
                  conversation_context' = EmptyContext
           /\ (Gap <= ConversationTimeout /\ call'.handled \in ContextReaders) =>
                  conversation_context' = conversation_context
           /\ (Gap <= ConversationTimeout
                  /\ call'.handled = "confirm_action"
                  /\ call'.pending = {"pending_event"}
                  /\ conversation_context.pending_action = <<"add">>
                  /\ conversation_context.pending_modify_action = None) =>
                  ret'.reply \in {"added", "add_failed"}]_vars

\* a confirm arrived a second more than 30 minutes after the add was proposed
\* and executed nothing
C30_Witness ==
    /\ op = "process_input"
    /\ call.text = QueRen
    /\ call.pending = {"pending_event"}
    /\ last_interaction_time = <<DialogueStart + ConversationTimeout + 1>>
    /\ ret.reply = "nothing_pending"
    /\ events = {}
    /\ conversation_context = EmptyContext

====
